---- MODULE Spec2Model ----
(***************************************************************************)
(* Verification model of the restriction (gather/scatter) layer of         *)
(* fem/backup/restriction_now.cpp.                                         *)
(*                                                                         *)
(* Arrays are functions on 0..n-1 so that the index arithmetic is that of  *)
(* the C++ code.  Vector entries (double) are modelled as integers: every  *)
(* operation below only copies, negates and adds entries.                  *)
(***************************************************************************)
EXTENDS Integers, Sequences, FiniteSets, TLC

(***************************************************************************)
(* Bounds of the model.                                                    *)
(***************************************************************************)
MaxNe == 2
MaxDof == 2
MaxNdofs == 3
MaxVdim == 2
MaxDof1d == 3
MaxDim == 2
MaxNF == 2

(* Array<int> storage that was allocated but not written yet
   (offsets(ndofs+1), indices(ne*dof), gatherMap(ne*dof)). *)
Uninit == -1000

(* ElementRestriction::MaxNbNbr, the length of the buffers i_elts, j_elts and
   inter; it is declared in restriction.hpp *)
MaxNbNbr == 16

VARIABLES
  pc,          \* last operation performed on the object
  ne,          \* fes.GetNE()
  vdim,        \* fes.GetVDim()
  byvdim,      \* fes.GetOrdering() == Ordering::byVDIM
  ndofs,       \* fes.GetNDofs()
  dof,         \* fes.GetFE(0)->GetDof()
  elementMap,  \* fes.GetElementToDofTable().GetJ(), signed
  dof_reorder, \* e_ordering == ElementDofOrdering::LEXICOGRAPHIC
  dof_map,     \* el->GetDofMap(), signed; <<>> when its Size() is 0
  tensor,      \* e |-> fes.GetFE(e) is a TensorBasisElement
  basis,       \* tfe->GetBasisType() of fes.GetFE(0)
  conforming,  \* fes.GetMesh()->Conforming()
  offsets,     \* ElementRestriction::offsets
  indices,     \* ElementRestriction::indices
  gatherMap,   \* ElementRestriction::gatherMap
  x,           \* the input vector of the last apply call
  y0,          \* the contents of the output vector before the last apply call
  y,           \* the output vector of the last apply call
  acc,         \* the positions of y the last BooleanMask call wrote: <<j, c, pos>>
  ub,          \* the last call wrote or read outside an array
  I,           \* SparseMatrix mat: row pointers
  J,           \* SparseMatrix mat: column indices
  Data,        \* SparseMatrix mat: values
  nnz,         \* the value FillI returned
  dim,         \* fes.GetMesh()->SpaceDimension()
  dof1d,       \* fes.GetFE(0)->GetOrder()+1
  face_id1,    \* argument of PermuteFaceL2
  face_id2,    \* argument of PermuteFaceL2
  orientation, \* argument of PermuteFaceL2
  perm,        \* index |-> PermuteFaceL2(dim, face_id1, face_id2, orientation, dof1d, index)
  faceMap1,    \* the array GetFaceDofs fills for face_id1
  faces,       \* the mesh: f |-> GetFaceElements(f), GetFaceInfos(f) as [e1, e2, inf1, inf2]
  type,        \* FaceType: "Interior" or "Boundary"
  m,           \* L2FaceValues: "SingleValued" or "DoubleValued"
  nf,          \* L2FaceRestriction::nf
  elemDofs,    \* L2FaceRestriction::elemDofs
  scatter_indices1, \* L2FaceRestriction::scatter_indices1
  scatter_indices2, \* L2FaceRestriction::scatter_indices2
  gather_indices,   \* L2FaceRestriction::gather_indices
  scatter_indices_tan1,  \* L2FaceNormalDRestriction::scatter_indices_tan1
  scatter_indices2_tan1, \* L2FaceNormalDRestriction::scatter_indices2_tan1
  Bf,               \* L2FaceNormalDRestriction::Bf
  Gf,               \* L2FaceNormalDRestriction::Gf
  offsets_nor,        \* L2FaceNormalDRestriction::offsets_nor
  gather_indices_nor, \* L2FaceNormalDRestriction::gather_indices_nor
  offsets_tan1,       \* L2FaceNormalDRestriction::offsets_tan1
  gather_indices_tan1, \* L2FaceNormalDRestriction::gather_indices_tan1
  tasks             \* the tasks of a running MFEM_FORALL: task |-> its position and registers

fesVars == <<ne, vdim, byvdim, ndofs, dof, elementMap, dof_reorder, dof_map,
             tensor, basis, conforming>>
erVars == <<offsets, indices, gatherMap>>
ioVars == <<x, y0, y, acc, ub>>
matVars == <<I, J, Data, nnz>>
permVars == <<dim, dof1d, face_id1, face_id2, orientation, perm, faceMap1>>
faceVars == <<faces, type, m, nf, elemDofs, scatter_indices1, scatter_indices2,
              gather_indices>>
normVars == <<scatter_indices_tan1, scatter_indices2_tan1, Bf, Gf, offsets_nor,
              gather_indices_nor, offsets_tan1, gather_indices_tan1>>
parVars == <<tasks>>
vars == <<pc, fesVars, erVars, ioVars, matVars, permVars, faceVars, normVars, parVars>>

(***************************************************************************)
(* C++ helpers.                                                            *)
(***************************************************************************)
Arr(n, v) == [i \in 0..(n-1) |-> v]

(* int division and remainder truncate toward zero *)
CDiv(a, b) == IF a >= 0 THEN a \div b ELSE -((-a) \div b)

CMod(a, b) == a - b * CDiv(a, b)

DecodeNoSign(s) == s

(* (s >= 0) ? s : -1 - s *)
Decode(s) == IF s >= 0 THEN s ELSE -1 - s

(* plus ? gid : -1 - gid *)
Encode(plus, gid) == IF plus THEN gid ELSE -1 - gid

(* Reshape(data, n0, n1)(i0, i1) and Reshape(data, n0, n1, n2)(i0, i1, i2) *)
Idx2(n0, i0, i1) == i0 + n0 * i1

Idx3(n0, n1, i0, i1, i2) == i0 + n0 * (i1 + n1 * i2)

(* d_x(t?c:j, t?j:c) with d_x = Reshape(x, t?vd:ndofs, t?ndofs:vd) *)
GIdx(t, vd, nd, j, c) == IF t THEN Idx2(vd, c, j) ELSE Idx2(nd, j, c)

(***************************************************************************)
(* ElementRestriction::ElementRestriction                                  *)
(***************************************************************************)
(* first pass of the counting sort: ++offsets[gid + 1] for every slot *)
RECURSIVE CountPass(_, _, _, _)
CountPass(k, n, eMap, offs) ==
  IF k >= n THEN offs
  ELSE LET sgid == eMap[k]
           gid == Decode(sgid)
       IN CountPass(k + 1, n, eMap, [offs EXCEPT ![gid + 1] = @ + 1])

(* offsets[i] += offsets[i - 1] for i = 1..ndofs *)
RECURSIVE Aggregate(_, _, _)
Aggregate(i, nd, offs) ==
  IF i > nd THEN offs
  ELSE Aggregate(i + 1, nd, [offs EXCEPT ![i] = @ + offs[i - 1]])

FillPlusTableOnly(sgid, sdid) == sgid >= 0

(* the sign test of the fill pass *)
FillPlus(sgid, sdid) == (sgid >= 0 /\ sdid >= 0) \/ (sgid < 0 /\ sdid < 0)

(* one iteration (e, d) of the fill pass; st = [offs, gm, ind] *)
FillStep(st, e, d, nDof, eMap, reorder, dmap) ==
  LET sdid == IF reorder THEN dmap[d] ELSE 0
      did == IF ~reorder THEN d ELSE Decode(sdid)
      sgid == eMap[nDof * e + did]
      gid == Decode(sgid)
      lid == nDof * e + d
      plus == FillPlus(sgid, sdid)
  IN [offs |-> [st.offs EXCEPT ![gid] = @ + 1],
      gm |-> [st.gm EXCEPT ![lid] = Encode(plus, gid)],
      ind |-> [st.ind EXCEPT ![st.offs[gid]] = Encode(plus, lid)]]

RECURSIVE FillPass(_, _, _, _, _, _, _)
FillPass(k, nE, nDof, eMap, reorder, dmap, st) ==
  IF k >= nE * nDof THEN st
  ELSE FillPass(k + 1, nE, nDof, eMap, reorder, dmap,
                FillStep(st, k \div nDof, k % nDof, nDof, eMap, reorder, dmap))

(* the offsets were used as counters: shift them back by one position *)
RECURSIVE ShiftLoop(_, _)
ShiftLoop(i, offs) ==
  IF i <= 0 THEN offs
  ELSE ShiftLoop(i - 1, [offs EXCEPT ![i] = offs[i - 1]])

ShiftBackNoReset(nd, offs) == ShiftLoop(nd, offs)

ShiftBack(nd, offs) == [ShiftLoop(nd, offs) EXCEPT ![0] = 0]

(* the three passes and the shift, each on the arrays the pass before it
   left *)
ERConstruct(nE, nDof, nd, eMap, reorder, dmap) ==
  LET counted == CHOOSE o \in {CountPass(0, nE * nDof, eMap, Arr(nd + 1, 0))} : TRUE
      Summed(c) == CHOOSE o \in {Aggregate(1, nd, c)} : TRUE
      Filled(a) == CHOOSE f \in {FillPass(0, nE, nDof, eMap, reorder, dmap,
                                          [offs |-> a,
                                           gm |-> Arr(nE * nDof, Uninit),
                                           ind |-> Arr(nE * nDof, Uninit)])} : TRUE
      Shifted(f) == [offsets |-> ShiftBack(nd, f.offs),
                     indices |-> f.ind,
                     gatherMap |-> f.gm]
  IN CHOOSE r \in {Shifted(f) : f \in {Filled(a) : a \in {Summed(c) : c \in {counted}}}} : TRUE

(***************************************************************************)
(* The finite element spaces the restriction is built from.                *)
(***************************************************************************)
(* the signed permutations of 0..n-1: entry d is sdid, with did or -1-did *)
Perms(n) == {p \in [0..(n-1) -> 0..(n-1)] : \A a, b \in 0..(n-1) : p[a] = p[b] => a = b}

SignedPerms(n) ==
  {[d \in 0..(n-1) |-> IF s[d] THEN p[d] ELSE -1 - p[d]] :
     p \in Perms(n), s \in [0..(n-1) -> BOOLEAN]}

(* element-to-dof tables whose entries decode into [0, nd) *)
ElementMaps(nE, nDof, nd) == [0..(nE * nDof - 1) -> (-nd)..(nd - 1)]

NoIO == /\ x = <<>>
        /\ y0 = <<>>
        /\ y = <<>>
        /\ acc = {}
        /\ ub = FALSE
        /\ I = <<>>
        /\ J = <<>>
        /\ Data = <<>>
        /\ nnz = 0
        /\ tasks = <<>>

NoPerm == /\ dim = 0
          /\ dof1d = 0
          /\ face_id1 = 0
          /\ face_id2 = 0
          /\ orientation = 0
          /\ perm = <<>> /\ faceMap1 = <<>>

NoNormal == /\ scatter_indices_tan1 = <<>>
            /\ scatter_indices2_tan1 = <<>>
            /\ Bf = <<>>
            /\ Gf = <<>>
            /\ offsets_nor = <<>>
            /\ gather_indices_nor = <<>>
            /\ offsets_tan1 = <<>>
            /\ gather_indices_tan1 = <<>>

NoFace == /\ NoNormal
          /\ faces = <<>>
          /\ type = "Interior"
          /\ m = "SingleValued"
          /\ nf = 0
          /\ elemDofs = 0
          /\ scatter_indices1 = <<>>
          /\ scatter_indices2 = <<>>
          /\ gather_indices = <<>>

NotBuilt == /\ pc = "new"
            /\ offsets = <<>>
            /\ indices = <<>>
            /\ gatherMap = <<>>
            /\ NoIO

FesShape == /\ ne \in 0..MaxNe
            /\ dof \in (IF ne > 0 THEN 1..MaxDof ELSE {0})
            /\ ndofs \in 1..MaxNdofs
            /\ vdim \in 1..MaxVdim
            /\ byvdim \in BOOLEAN
            /\ elementMap \in ElementMaps(ne, dof, ndofs)
            /\ basis = "GaussLobatto"
            /\ conforming = TRUE
            /\ NoPerm
            /\ NoFace

(* every ordering request: native, or lexicographic with any dof map, on
   tensor-basis elements and on spaces where some element is not one; the dof
   map of a tensor-basis element without one has Size() 0 *)
InitCtor == /\ FesShape
            /\ dof_reorder \in BOOLEAN
            /\ tensor \in [0..(ne - 1) -> BOOLEAN]
            /\ dof_map \in (IF dof_reorder /\ ne > 0 /\ tensor[0]
                            THEN SignedPerms(dof) \cup {<<>>} ELSE {<<>>})
            /\ NotBuilt

LexicographicOkFirstOnly(nE, reorder, tns, dmap) ==
  (reorder /\ nE > 0) => (tns[0] /\ dmap # <<>>)

(* the checks made for lexicographic ordering on a non-empty space: every
   element is a TensorBasisElement, and the dof map of element 0 is not empty *)
LexicographicOk(nE, reorder, tns, dmap) ==
  (reorder /\ nE > 0) => /\ \A e \in 0..(nE - 1) : tns[e]
                         /\ dmap # <<>>

(* mfem_error and MFEM_VERIFY end the program: the arrays are as allocated *)
Construct ==
  /\ pc = "new"
  /\ IF LexicographicOk(ne, dof_reorder, tensor, dof_map)
     THEN \E r \in {ERConstruct(ne, dof, ndofs, elementMap, dof_reorder, dof_map)} :
            /\ offsets' = r.offsets
            /\ indices' = r.indices
            /\ gatherMap' = r.gatherMap
            /\ pc' = "built"
     ELSE /\ offsets' = Arr(ndofs + 1, Uninit)
          /\ indices' = Arr(ne * dof, Uninit)
          /\ gatherMap' = Arr(ne * dof, Uninit)
          /\ pc' = "error"
  /\ UNCHANGED <<faceVars, permVars, fesVars, normVars, parVars, ioVars, matVars>>

NextCtor == Construct

SpecCtor == InitCtor /\ [][NextCtor]_vars

(***************************************************************************)
(* ElementRestriction::Mult, MultUnsigned                                  *)
(***************************************************************************)
(* the value task i stores for component c: plus ? dofValue : -dofValue *)
MultValueUnsigned(gm, xv, t, vd, nd, i, c) ==
  LET gid == gm[i]
      j == Decode(gid)
  IN xv[GIdx(t, vd, nd, j, c)]

MultValueNoSign(gm, xv, t, vd, nd, i, c) == MultValueUnsigned(gm, xv, t, vd, nd, i, c)

MultValue(gm, xv, t, vd, nd, i, c) ==
  LET gid == gm[i]
      plus == gid >= 0
      j == Decode(gid)
      dofValue == xv[GIdx(t, vd, nd, j, c)]
  IN IF plus THEN dofValue ELSE -dofValue

(* MFEM_FORALL(i, dof*ne) with the loop over c; k enumerates (i, c) *)
RECURSIVE MultLoop(_, _, _, _, _, _, _, _, _, _)
MultLoop(k, nE, nDof, vd, t, nd, gm, xv, yv, signed) ==
  IF k >= nE * nDof * vd THEN yv
  ELSE LET i == k \div vd
           c == k % vd
           v == IF signed THEN MultValue(gm, xv, t, vd, nd, i, c)
                ELSE MultValueUnsigned(gm, xv, t, vd, nd, i, c)
       IN MultLoop(k + 1, nE, nDof, vd, t, nd, gm, xv,
                   [yv EXCEPT ![Idx3(nDof, vd, i % nDof, c, i \div nDof)] = v], signed)

(***************************************************************************)
(* ElementRestriction::MultTranspose, MultTransposeUnsigned                *)
(***************************************************************************)
GatherTermAlwaysSigned(ind, xv, nDof, vd, c, j, signed) ==
  LET idx_j == Decode(ind[j])
      v == xv[Idx3(nDof, vd, idx_j % nDof, c, idx_j \div nDof)]
  IN IF ind[j] < 0 THEN -v ELSE v

(* the term the inner loop adds to dofValue for position j of indices *)
GatherTerm(ind, xv, nDof, vd, c, j, signed) ==
  LET idx_j == Decode(ind[j])
      v == xv[Idx3(nDof, vd, idx_j % nDof, c, idx_j \div nDof)]
  IN IF signed /\ ind[j] < 0 THEN -v ELSE v

RECURSIVE BucketSum(_, _, _, _, _, _, _, _)
BucketSum(j, nextOffset, ind, xv, nDof, vd, c, signed) ==
  IF j >= nextOffset THEN 0
  ELSE GatherTerm(ind, xv, nDof, vd, c, j, signed)
       + BucketSum(j + 1, nextOffset, ind, xv, nDof, vd, c, signed)

(* d_y(t?c:i, t?i:c) = dofValue *)
GatherStoreAdd(prior, dofValue) == prior + dofValue

GatherStore(prior, dofValue) == dofValue

(* MFEM_FORALL(i, ndofs) with the loop over c; k enumerates (i, c) *)
RECURSIVE MultTransposeLoop(_, _, _, _, _, _, _, _, _, _)
MultTransposeLoop(k, nd, nDof, vd, t, offs, ind, xv, yv, signed) ==
  IF k >= nd * vd THEN yv
  ELSE LET i == k \div vd
           c == k % vd
           offset == offs[i]
           nextOffset == offs[i + 1]
           dofValue == BucketSum(offset, nextOffset, ind, xv, nDof, vd, c, signed)
           p == GIdx(t, vd, nd, i, c)
       IN MultTransposeLoop(k + 1, nd, nDof, vd, t, offs, ind, xv,
                            [yv EXCEPT ![p] = GatherStore(yv[p], dofValue)], signed)

(***************************************************************************)
(* ElementRestriction::BooleanMask                                         *)
(***************************************************************************)
(* idx_j = d_indices[j] *)
MaskIdx(ind, j) == ind[j]

(* d_y(idx_j % nd, c, idx_j / nd) as a position of the flat array *)
MaskPos(ind, nDof, vd, c, j) ==
  LET idx_j == MaskIdx(ind, j)
  IN Idx3(nDof, vd, CMod(idx_j, nDof), c, CDiv(idx_j, nDof))

(* one iteration (i, c, j); st = [y, processed, acc] *)
MaskStep(st, nd, nDof, vd, t, ind, i, c, j) ==
  LET p == MaskPos(ind, nDof, vd, c, j)
      q == GIdx(t, vd, nd, i, c)
      v == IF st.processed[q] = 1 THEN 0 ELSE 1
  IN [y |-> IF p \in DOMAIN st.y THEN [st.y EXCEPT ![p] = v] ELSE st.y,
      processed |-> IF st.processed[q] = 1 THEN st.processed
                    ELSE [st.processed EXCEPT ![q] = 1],
      acc |-> st.acc \cup {<<j, c, p>>}]

RECURSIVE MaskBucket(_, _, _, _, _, _, _, _, _, _)
MaskBucket(j, nextOffset, st, nd, nDof, vd, t, ind, i, c) ==
  IF j >= nextOffset THEN st
  ELSE MaskBucket(j + 1, nextOffset, MaskStep(st, nd, nDof, vd, t, ind, i, c, j),
                  nd, nDof, vd, t, ind, i, c)

RECURSIVE MaskLoop(_, _, _, _, _, _, _, _)
MaskLoop(k, nd, nDof, vd, t, offs, ind, st) ==
  IF k >= nd * vd THEN st
  ELSE LET i == k \div vd
           c == k % vd
       IN MaskLoop(k + 1, nd, nDof, vd, t, offs, ind,
                   MaskBucket(offs[i], offs[i + 1], st, nd, nDof, vd, t, ind, i, c))

(***************************************************************************)
(* GetMinElt, GetAndIncrementNnzIndex                                      *)
(***************************************************************************)
(* the intersection buffer inter, in the order the two loops fill it *)
RECURSIVE InterRow(_, _, _, _)
InterRow(j, e_i, nbr_elts, nbrNbElts) ==
  IF j >= nbrNbElts THEN <<>>
  ELSE (IF e_i = nbr_elts[j] THEN <<e_i>> ELSE <<>>)
         \o InterRow(j + 1, e_i, nbr_elts, nbrNbElts)

RECURSIVE Inter(_, _, _, _, _)
Inter(i, my_elts, nbElts, nbr_elts, nbrNbElts) ==
  IF i >= nbElts THEN <<>>
  ELSE InterRow(0, my_elts[i], nbr_elts, nbrNbElts)
         \o Inter(i + 1, my_elts, nbElts, nbr_elts, nbrNbElts)

RECURSIVE MinOf(_, _, _)
MinOf(inter, i, min) ==
  IF i > Len(inter) THEN min
  ELSE MinOf(inter, i + 1, IF inter[i] < min THEN inter[i] ELSE min)

(* [min, ub]: an empty intersection leaves inter[0] unwritten, one longer
   than MaxNbNbr is written past the buffer *)
GetMinElt(my_elts, nbElts, nbr_elts, nbrNbElts) ==
  LET inter == Inter(0, my_elts, nbElts, nbr_elts, nbrNbElts)
      cpt == Len(inter)
  IN IF cpt = 0 THEN [min |-> Uninit, ub |-> TRUE]
     ELSE [min |-> MinOf(inter, 2, inter[1]), ub |-> cpt > MaxNbNbr]

(* i_elts / j_elts: the element of every entry of the bucket of dof L *)
BucketElts(offs, ind, nDof, L) ==
  [k \in 0..(offs[L + 1] - offs[L] - 1) |-> CDiv(ind[offs[L] + k], nDof)]

(* i_B / j_B: the local slot of every entry of the bucket of dof L *)
BucketLoc(offs, ind, nDof, L) ==
  [k \in 0..(offs[L + 1] - offs[L] - 1) |-> CMod(ind[offs[L] + k], nDof)]

(* mat_ea(j, i, e) with mat_ea = Reshape(ea_data, elt_dofs, elt_dofs, ne) *)
MatEaTransposed(ea, nDof, j, i, e) == ea[Idx3(nDof, nDof, i, j, e)]

MatEa(ea, nDof, j, i, e) == ea[Idx3(nDof, nDof, j, i, e)]

(***************************************************************************)
(* ElementRestriction::FillI                                               *)
(***************************************************************************)
(* one iteration (e, i, j) of the counting loop; st = [I, ub] *)
FillIStep(st, e, i, j, nd, nDof, offs, ind, gm) ==
  LET i_L == gm[e * nDof + i]
      j_L == gm[e * nDof + j]
  IN IF i_L \notin 0..(nd - 1) \/ j_L \notin 0..(nd - 1)
     THEN [st EXCEPT !.ub = TRUE]
     ELSE
       LET i_nbElts == offs[i_L + 1] - offs[i_L]
           j_nbElts == offs[j_L + 1] - offs[j_L]
           i_elts == BucketElts(offs, ind, nDof, i_L)
           j_elts == BucketElts(offs, ind, nDof, j_L)
           over == i_nbElts > MaxNbNbr \/ j_nbElts > MaxNbNbr
       IN IF i_nbElts = 1 \/ j_nbElts = 1
          THEN [I |-> [st.I EXCEPT ![i_L] = @ + 1], ub |-> st.ub \/ over]
          ELSE LET mn == GetMinElt(i_elts, i_nbElts, j_elts, j_nbElts)
               IN [I |-> IF e = mn.min THEN [st.I EXCEPT ![i_L] = @ + 1] ELSE st.I,
                   ub |-> st.ub \/ over \/ mn.ub]

RECURSIVE FillILoop(_, _, _, _, _, _, _, _)
FillILoop(k, nE, nd, nDof, offs, ind, gm, st) ==
  IF k >= nE * nDof * nDof THEN st
  ELSE FillILoop(k + 1, nE, nd, nDof, offs, ind, gm,
                 FillIStep(st, k \div (nDof * nDof), (k \div nDof) % nDof, k % nDof,
                           nd, nDof, offs, ind, gm))

(* the sequential sum of the entries of I; st = [I, sum] *)
RECURSIVE PrefixSumInclusive(_, _, _)
PrefixSumInclusive(i, nTdofs, st) ==
  IF i >= nTdofs THEN [st.I EXCEPT ![nTdofs] = st.sum]
  ELSE PrefixSumInclusive(i + 1, nTdofs,
                          [I |-> [st.I EXCEPT ![i] = st.sum + st.I[i]],
                           sum |-> st.sum + st.I[i]])

RECURSIVE PrefixSum(_, _, _)
PrefixSum(i, nTdofs, st) ==
  IF i >= nTdofs THEN [st.I EXCEPT ![nTdofs] = st.sum]
  ELSE PrefixSum(i + 1, nTdofs,
                 [I |-> [st.I EXCEPT ![i] = st.sum], sum |-> st.sum + st.I[i]])

(* [I, ub]; the value returned is I[vd*all_dofs] *)
ERFillI(nE, nd, nDof, vd, offs, ind, gm) ==
  LET counted == FillILoop(0, nE, nd, nDof, offs, ind, gm,
                           [I |-> Arr(vd * nd + 1, 0), ub |-> FALSE])
  IN [I |-> PrefixSum(0, vd * nd, [I |-> counted.I, sum |-> 0]), ub |-> counted.ub]

(***************************************************************************)
(* ElementRestriction::FillJAndData                                        *)
(***************************************************************************)
(* val: the sum of mat_ea(j_Bloc, i_Bloc, e_i) over the pairs with e_i = e_j *)
RECURSIVE AssembledRow(_, _, _, _, _, _, _)
AssembledRow(j, ea, nDof, e_i, i_Bloc, j_elts, j_B) ==
  IF j >= Cardinality(DOMAIN j_elts) THEN 0
  ELSE (IF e_i = j_elts[j] THEN MatEa(ea, nDof, j_B[j], i_Bloc, e_i) ELSE 0)
         + AssembledRow(j + 1, ea, nDof, e_i, i_Bloc, j_elts, j_B)

RECURSIVE AssembledVal(_, _, _, _, _, _, _, _)
AssembledVal(i, ea, nDof, i_elts, i_B, j_elts, j_B, j_nbElts) ==
  IF i >= Cardinality(DOMAIN i_elts) THEN 0
  ELSE AssembledRow(0, ea, nDof, i_elts[i], i_B[i], j_elts, j_B)
         + AssembledVal(i + 1, ea, nDof, i_elts, i_B, j_elts, j_B, j_nbElts)

(* J[nnz] = j_L; Data[nnz] = v with nnz = GetAndIncrementNnzIndex(i_L, I);
   st = [I, J, Data, ub] *)
Emit(st, i_L, j_L, v) ==
  LET at == st.I[i_L]
  IN IF at \in DOMAIN st.J
     THEN [st EXCEPT !.I[i_L] = @ + 1, !.J[at] = j_L, !.Data[at] = v]
     ELSE [st EXCEPT !.I[i_L] = @ + 1, !.ub = TRUE]

(* one iteration (e, i, j) of the filling loop *)
FillJStep(st, e, i, j, nd, nDof, offs, ind, gm, ea) ==
  LET i_L == gm[e * nDof + i]
      j_L == gm[e * nDof + j]
  IN IF i_L \notin 0..(nd - 1) \/ j_L \notin 0..(nd - 1)
     THEN [st EXCEPT !.ub = TRUE]
     ELSE
       LET i_nbElts == offs[i_L + 1] - offs[i_L]
           j_nbElts == offs[j_L + 1] - offs[j_L]
           i_elts == BucketElts(offs, ind, nDof, i_L)
           i_B == BucketLoc(offs, ind, nDof, i_L)
           j_elts == BucketElts(offs, ind, nDof, j_L)
           j_B == BucketLoc(offs, ind, nDof, j_L)
           over == i_nbElts > MaxNbNbr \/ j_nbElts > MaxNbNbr
       IN IF i_nbElts = 1 \/ j_nbElts = 1
          THEN LET r == Emit(st, i_L, j_L, MatEa(ea, nDof, j, i, e))
               IN [r EXCEPT !.ub = @ \/ over]
          ELSE LET mn == GetMinElt(i_elts, i_nbElts, j_elts, j_nbElts)
                   inside == \A a \in DOMAIN i_elts, b \in DOMAIN j_elts :
                               i_elts[a] = j_elts[b] =>
                                 Idx3(nDof, nDof, j_B[b], i_B[a], i_elts[a]) \in DOMAIN ea
               IN IF e # mn.min
                  THEN [st EXCEPT !.ub = @ \/ over \/ mn.ub]
                  ELSE IF ~inside
                  THEN [st EXCEPT !.ub = TRUE]
                  ELSE LET r == Emit(st, i_L, j_L,
                                     AssembledVal(0, ea, nDof, i_elts, i_B,
                                                  j_elts, j_B, j_nbElts))
                       IN [r EXCEPT !.ub = @ \/ over \/ mn.ub]

RECURSIVE FillJLoop(_, _, _, _, _, _, _, _, _)
FillJLoop(k, nE, nd, nDof, offs, ind, gm, ea, st) ==
  IF k >= nE * nDof * nDof THEN st
  ELSE FillJLoop(k + 1, nE, nd, nDof, offs, ind, gm, ea,
                 FillJStep(st, k \div (nDof * nDof), (k \div nDof) % nDof, k % nDof,
                           nd, nDof, offs, ind, gm, ea))

(* the shift without the final h_I[0] = 0 *)
RECURSIVE ShiftINoReset(_, _, _)
ShiftINoReset(i, size, rp) ==
  IF i >= size THEN rp
  ELSE ShiftINoReset(i + 1, size, [rp EXCEPT ![size - i] = rp[size - (i + 1)]])

(* h_I[size-i] = h_I[size-(i+1)] for i = 0..size-1, then h_I[0] = 0 *)
RECURSIVE ShiftI(_, _, _)
ShiftI(i, size, rp) ==
  IF i >= size THEN [rp EXCEPT ![0] = 0]
  ELSE ShiftI(i + 1, size, [rp EXCEPT ![size - i] = rp[size - (i + 1)]])

ERFillJAndData(nE, nd, nDof, vd, offs, ind, gm, ea, rp, n) ==
  LET filled == FillJLoop(0, nE, nd, nDof, offs, ind, gm, ea,
                          [I |-> rp, J |-> Arr(n, Uninit), Data |-> Arr(n, Uninit),
                           ub |-> FALSE])
  IN [filled EXCEPT !.I = ShiftI(0, vd * nd, filled.I)]

(***************************************************************************)
(* The vectors the callers pass in.                                        *)
(***************************************************************************)
RECURSIVE Pow3(_)
Pow3(k) == IF k = 0 THEN 1 ELSE 3 * Pow3(k - 1)

(* all ones, and a vector whose signed partial sums are pairwise different *)
InputVectors(n) == {[k \in 0..(n-1) |-> 1], [k \in 0..(n-1) |-> Pow3(k)]}

(* what an output vector may hold before a call *)
PriorVectors(n) == {Arr(n, 0), Arr(n, 7)}

GlobalSize == vdim * ndofs

LocalSize == vdim * ne * dof

(* the apply calls are made on a restriction built for native ordering, or
   for lexicographic ordering with the reversing dof map, first entry negated *)
ReversingMap(n) == [d \in 0..(n-1) |-> IF d = 0 THEN -1 - (n - 1) ELSE n - 1 - d]

Init == /\ FesShape
        /\ dof_reorder \in BOOLEAN
        /\ tensor = [e \in 0..(ne - 1) |-> TRUE]
        /\ dof_map = (IF dof_reorder /\ ne > 0 THEN ReversingMap(dof) ELSE <<>>)
        /\ NotBuilt

Mult ==
  /\ pc = "built"
  /\ \E xv \in InputVectors(GlobalSize), yv \in PriorVectors(LocalSize) :
       /\ x' = xv
       /\ y0' = yv
       /\ y' = MultLoop(0, ne, dof, vdim, byvdim, ndofs, gatherMap, xv, yv, TRUE)
  /\ pc' = "Mult"
  /\ UNCHANGED <<faceVars, permVars, fesVars, normVars, parVars, erVars, acc, ub, matVars>>

MultUnsigned ==
  /\ pc = "built"
  /\ \E xv \in InputVectors(GlobalSize), yv \in PriorVectors(LocalSize) :
       /\ x' = xv
       /\ y0' = yv
       /\ y' = MultLoop(0, ne, dof, vdim, byvdim, ndofs, gatherMap, xv, yv, FALSE)
  /\ pc' = "MultUnsigned"
  /\ UNCHANGED <<faceVars, permVars, fesVars, normVars, parVars, erVars, acc, ub, matVars>>

MultTranspose ==
  /\ pc = "built"
  /\ \E xv \in InputVectors(LocalSize), yv \in PriorVectors(GlobalSize) :
       /\ x' = xv
       /\ y0' = yv
       /\ y' = MultTransposeLoop(0, ndofs, dof, vdim, byvdim, offsets, indices, xv, yv, TRUE)
  /\ pc' = "MultTranspose"
  /\ UNCHANGED <<faceVars, permVars, fesVars, normVars, parVars, erVars, acc, ub, matVars>>

(* called on a local vector of the caller, or on the result of MultUnsigned;
   in the second case y0 keeps the global vector MultUnsigned was applied to *)
MultTransposeUnsigned ==
  \/ /\ pc = "built"
     /\ \E xv \in InputVectors(LocalSize), yv \in PriorVectors(GlobalSize) :
          /\ x' = xv
          /\ y0' = yv
          /\ y' = MultTransposeLoop(0, ndofs, dof, vdim, byvdim, offsets, indices, xv, yv, FALSE)
     /\ pc' = "MultTransposeUnsigned"
     /\ UNCHANGED <<faceVars, permVars, fesVars, normVars, parVars, erVars, acc, ub, matVars>>
  \/ /\ pc = "MultUnsigned"
     /\ x' = y
     /\ y0' = x
     /\ y' = MultTransposeLoop(0, ndofs, dof, vdim, byvdim, offsets, indices, y, x, FALSE)
     /\ pc' = "RoundTripUnsigned"
     /\ UNCHANGED <<faceVars, permVars, fesVars, normVars, parVars, erVars, acc, ub, matVars>>

(* a write outside y is undefined behaviour: the call goes on with y holding
   the writes that fell inside it, or the process is stopped *)
BooleanMask ==
  /\ pc = "built"
  /\ \E yv \in PriorVectors(LocalSize) :
       LET r == MaskLoop(0, ndofs, dof, vdim, byvdim, offsets, indices,
                         [y |-> yv, processed |-> Arr(vdim * ndofs, 0), acc |-> {}])
           outside == \E a \in r.acc : a[3] \notin DOMAIN yv
       IN /\ y0' = yv
          /\ y' = r.y
          /\ acc' = r.acc
          /\ ub' = outside
          /\ pc' \in (IF outside THEN {"BooleanMask", "stopped"} ELSE {"BooleanMask"})
  /\ x' = <<>>
  /\ UNCHANGED <<faceVars, permVars, fesVars, normVars, parVars, erVars, matVars>>

(* an access outside an array is undefined behaviour: the call goes on with
   the arrays holding the accesses that fell inside them, or the process is
   stopped *)
FillI ==
  /\ pc = "built"
  /\ LET r == ERFillI(ne, ndofs, dof, vdim, offsets, indices, gatherMap)
     IN /\ I' = r.I
        /\ nnz' = r.I[vdim * ndofs]
        /\ ub' = r.ub
        /\ pc' \in (IF r.ub THEN {"FillI", "stopped"} ELSE {"FillI"})
  /\ UNCHANGED <<faceVars, permVars, fesVars, normVars, parVars, erVars, x, y0, y, acc, J, Data>>

(* FillSparseMatrix allocates J and Data with the length FillI returned *)
FillJAndData ==
  /\ pc = "FillI"
  /\ \E ea \in InputVectors(dof * dof * ne) :
       LET r == ERFillJAndData(ne, ndofs, dof, vdim, offsets, indices, gatherMap,
                               ea, I, nnz)
       IN /\ x' = ea
          /\ I' = r.I
          /\ J' = r.J
          /\ Data' = r.Data
          /\ ub' = (ub \/ r.ub)
          /\ pc' \in (IF r.ub THEN {"FillJAndData", "stopped"} ELSE {"FillJAndData"})
  /\ UNCHANGED <<faceVars, permVars, fesVars, normVars, parVars, erVars, y0, y, acc, nnz>>

Next ==
  \/ Construct
  \/ Mult
  \/ MultUnsigned
  \/ MultTranspose
  \/ MultTransposeUnsigned
  \/ BooleanMask
  \/ FillI
  \/ FillJAndData

Spec == Init /\ [][Next]_vars

(***************************************************************************)
(* Spaces in which one dof belongs to about MaxNbNbr elements: elements    *)
(* with a single dof, the first n of them on dof 0.                        *)
(***************************************************************************)
CrowdedMaps(nE, nd) ==
  {[k \in 0..(nE - 1) |-> IF k < n THEN 0 ELSE nd - 1] : n \in (MaxNbNbr - 1)..nE}

InitCrowded ==
  /\ ne \in MaxNbNbr..(MaxNbNbr + 1)
  /\ dof = 1
  /\ ndofs \in 1..MaxNdofs
  /\ vdim \in 1..MaxVdim
  /\ byvdim \in BOOLEAN
  /\ elementMap \in CrowdedMaps(ne, ndofs)
  /\ basis = "GaussLobatto"
  /\ conforming = TRUE
  /\ NoPerm
  /\ NoFace
  /\ dof_reorder = FALSE
  /\ tensor = [e \in 0..(ne - 1) |-> TRUE]
  /\ dof_map = <<>>
  /\ NotBuilt

NextCrowded ==
  \/ Construct
  \/ FillI
  \/ FillJAndData

SpecCrowded == InitCrowded /\ [][NextCrowded]_vars

(***************************************************************************)
(* The 2x2 quadrilateral mesh with the order-2 tensor basis: 4 elements of *)
(* 3 x 3 dofs on the 5 x 5 lattice of nodes of a continuous H1 space.      *)
(***************************************************************************)
(* elementMap: slot i + 3 j of element ex + 2 ey is node (2 ex + i, 2 ey + j) *)
QuadElementMap ==
  [k \in 0..35 |->
     LET e == k \div 9
         d == k % 9
     IN (2 * (e % 2) + (d % 3)) + 5 * (2 * (e \div 2) + (d \div 3))]

(* the unit vectors, which span every global vector, and a ramp *)
NodalVectors(n) ==
  {[k \in 0..(n - 1) |-> IF k = g THEN 1 ELSE 0] : g \in 0..(n - 1)}
    \cup {[k \in 0..(n - 1) |-> k + 1]}

InitQuad ==
  /\ ne = 4 /\ dof = 9 /\ ndofs = 25
  /\ vdim \in 1..MaxVdim
  /\ byvdim \in BOOLEAN
  /\ elementMap = QuadElementMap
  /\ basis = "GaussLobatto"
  /\ conforming = TRUE
  /\ NoPerm
  /\ NoFace
  /\ dof_reorder \in BOOLEAN
  /\ tensor = [e \in 0..(ne - 1) |-> TRUE]
  /\ dof_map = (IF dof_reorder THEN ReversingMap(dof) ELSE <<>>)
  /\ NotBuilt

MultOnQuad ==
  /\ pc = "built"
  /\ \E xv \in NodalVectors(GlobalSize), yv \in PriorVectors(LocalSize) :
       /\ x' = xv
       /\ y0' = yv
       /\ y' = MultLoop(0, ne, dof, vdim, byvdim, ndofs, gatherMap, xv, yv, TRUE)
  /\ pc' = "Mult"
  /\ UNCHANGED <<faceVars, permVars, fesVars, normVars, parVars, erVars, acc, ub, matVars>>

(* MultTranspose called on the result of Mult; y0 keeps the global vector
   Mult was applied to *)
MultTransposeOfMult ==
  /\ pc = "Mult"
  /\ x' = y
  /\ y0' = x
  /\ y' = MultTransposeLoop(0, ndofs, dof, vdim, byvdim, offsets, indices, y, x, TRUE)
  /\ pc' = "RoundTrip"
  /\ UNCHANGED <<faceVars, permVars, fesVars, normVars, parVars, erVars, acc, ub, matVars>>

NextQuad == Construct \/ MultOnQuad \/ MultTransposeOfMult

SpecQuad == InitQuad /\ [][NextQuad]_vars

(***************************************************************************)
(* ToLexOrdering2D, PermuteFace2D, ToLexOrdering3D, PermuteFace3D,         *)
(* PermuteFaceL2                                                           *)
(***************************************************************************)
ToLexOrdering2D(face_id, size1d, i) ==
  IF face_id = 2 \/ face_id = 3 THEN size1d - 1 - i ELSE i

PermuteFace2D(fid1, fid2, orient, size1d, index) ==
  LET from_lex == IF fid1 = 2 \/ fid1 = 3 THEN size1d - 1 - index ELSE index
      new_index == IF orient = 1 THEN size1d - 1 - from_lex ELSE from_lex
  IN ToLexOrdering2D(fid2, size1d, new_index)

ToLexOrdering3D(face_id, size1d, i, j) ==
  IF face_id = 2 \/ face_id = 1 \/ face_id = 5 THEN i + j * size1d
  ELSE IF face_id = 3 \/ face_id = 4 THEN (size1d - 1 - i) + j * size1d
  ELSE i + (size1d - 1 - j) * size1d

(* the switch on orientation: <<new_i, new_j>>, <<0, 0>> when no case matches *)
Orient3DTypo(orient, size1d, i, j) ==
  CASE orient = 0 -> <<i, j>>
    [] orient = 1 -> <<j, i>>
    [] orient = 2 -> <<j, size1d - 1 - j>>
    [] orient = 3 -> <<size1d - 1 - i, j>>
    [] orient = 4 -> <<size1d - 1 - i, size1d - 1 - j>>
    [] orient = 5 -> <<size1d - 1 - j, size1d - 1 - i>>
    [] orient = 6 -> <<size1d - 1 - j, i>>
    [] orient = 7 -> <<i, size1d - 1 - j>>
    [] OTHER -> <<0, 0>>

(* the switch with case 6 repeating the rotation of case 2 *)
Orient3DRepeated(orient, size1d, i, j) ==
  CASE orient = 0 -> <<i, j>>
    [] orient = 1 -> <<j, i>>
    [] orient = 2 -> <<j, size1d - 1 - i>>
    [] orient = 3 -> <<size1d - 1 - i, j>>
    [] orient = 4 -> <<size1d - 1 - i, size1d - 1 - j>>
    [] orient = 5 -> <<size1d - 1 - j, size1d - 1 - i>>
    [] orient = 6 -> <<j, size1d - 1 - i>>
    [] orient = 7 -> <<i, size1d - 1 - j>>
    [] OTHER -> <<0, 0>>

Orient3D(orient, size1d, i, j) ==
  CASE orient = 0 -> <<i, j>>
    [] orient = 1 -> <<j, i>>
    [] orient = 2 -> <<j, size1d - 1 - i>>
    [] orient = 3 -> <<size1d - 1 - i, j>>
    [] orient = 4 -> <<size1d - 1 - i, size1d - 1 - j>>
    [] orient = 5 -> <<size1d - 1 - j, size1d - 1 - i>>
    [] orient = 6 -> <<size1d - 1 - j, i>>
    [] orient = 7 -> <<i, size1d - 1 - j>>
    [] OTHER -> <<0, 0>>

PermuteFace3D(fid1, fid2, orient, size1d, index) ==
  LET i0 == CMod(index, size1d)
      j0 == CDiv(index, size1d)
      i == IF fid1 = 3 \/ fid1 = 4 THEN size1d - 1 - i0 ELSE i0
      j == IF fid1 = 3 \/ fid1 = 4 THEN j0
           ELSE IF fid1 = 0 THEN size1d - 1 - j0 ELSE j0
      new == Orient3D(orient, size1d, i, j)
  IN ToLexOrdering3D(fid2, size1d, new[1], new[2])

(* dimensions other than 1, 2, 3 end in mfem_error and are never passed *)
PermuteFaceL2(d, fid1, fid2, orient, size1d, index) ==
  CASE d = 1 -> 0
    [] d = 2 -> PermuteFace2D(fid1, fid2, orient, size1d, index)
    [] d = 3 -> PermuteFace3D(fid1, fid2, orient, size1d, index)

RECURSIVE Power(_, _)
Power(b, n) == IF n = 0 THEN 1 ELSE b * Power(b, n - 1)

(* the number of dofs of a face: dof1d^(dim-1) *)
FaceDofs(d, size1d) == Power(size1d, d - 1)

(* the reference faces of a segment, a square, a cube; the orientation codes *)
FaceIds(d) == 0..(2 * d - 1)

Orientations(d) == CASE d = 1 -> {0} [] d = 2 -> 0..1 [] d = 3 -> 0..7

InitPermute ==
  /\ pc = "call"
  /\ dim \in 1..3
  /\ dof1d \in 1..MaxDof1d
  /\ face_id1 \in FaceIds(dim)
  /\ face_id2 \in FaceIds(dim)
  /\ orientation \in Orientations(dim)
  /\ perm = <<>> /\ faceMap1 = <<>>
  /\ ne = 0 /\ vdim = 1 /\ byvdim = FALSE /\ ndofs = 0 /\ dof = 0
  /\ elementMap = <<>> /\ dof_reorder = TRUE /\ dof_map = <<>>
  /\ tensor = <<>> /\ basis = "GaussLobatto" /\ conforming = TRUE
  /\ offsets = <<>> /\ indices = <<>> /\ gatherMap = <<>>
  /\ NoIO
  /\ NoFace

(* the permutation is evaluated for every index of the face, as the
   constructors of the face restrictions do *)
Permute ==
  /\ pc = "call"
  /\ perm' = [index \in 0..(FaceDofs(dim, dof1d) - 1) |->
                PermuteFaceL2(dim, face_id1, face_id2, orientation, dof1d, index)]
  /\ pc' = "permuted"
  /\ UNCHANGED <<dim, dof1d, face_id1, face_id2, orientation, faceMap1>>
  /\ UNCHANGED <<fesVars, normVars, parVars, erVars, ioVars, matVars, faceVars>>

NextPermute == Permute

SpecPermute == InitPermute /\ [][NextPermute]_vars

(***************************************************************************)
(* GetFaceDofs                                                             *)
(***************************************************************************)
(* the map that lists the first dof1d^(dim-1) slots whatever the face *)
GetFaceDofsFace0(d, face_id, size1d, fMap) == [k \in DOMAIN fMap |-> k]

(* faceMap after the call; a face id the switch does not list leaves it as
   it was *)
GetFaceDofs(d, face_id, size1d, faceMap) ==
  LET n == size1d
  IN CASE d = 1 /\ face_id \in 0..1 ->
            [faceMap EXCEPT ![0] = IF face_id = 0 THEN 0 ELSE n - 1]
       [] d = 2 /\ face_id \in 0..3 ->
            [k \in DOMAIN faceMap |->
               IF k >= n THEN faceMap[k]
               ELSE LET i == k
                    IN CASE face_id = 0 -> i
                         [] face_id = 1 -> n - 1 + i * n
                         [] face_id = 2 -> (n - 1) * n + i
                         [] face_id = 3 -> i * n]
       [] d = 3 /\ face_id \in 0..5 ->
            [k \in DOMAIN faceMap |->
               IF k >= n * n THEN faceMap[k]
               ELSE LET i == k % n
                        j == k \div n
                    IN CASE face_id = 0 -> i + j * n
                         [] face_id = 1 -> i + j * n * n
                         [] face_id = 2 -> n - 1 + i * n + j * n * n
                         [] face_id = 3 -> (n - 1) * n + i + j * n * n
                         [] face_id = 4 -> i * n + j * n * n
                         [] face_id = 5 -> (n - 1) * n * n + i + j * n]
       [] OTHER -> faceMap

(* GetFaceDofs called on a freshly allocated faceMap of dof1d^(dim-1)
   entries, as the constructors of the face restrictions call it *)
FaceDofsCall ==
  /\ pc = "call"
  /\ faceMap1' = GetFaceDofs(dim, face_id1, dof1d,
                             Arr(FaceDofs(dim, dof1d), Uninit))
  /\ pc' = "mapped"
  /\ UNCHANGED <<dim, dof1d, face_id1, face_id2, orientation, perm>>
  /\ UNCHANGED <<fesVars, normVars, parVars, erVars, ioVars, matVars, faceVars>>

NextFaceDofs == FaceDofsCall

SpecFaceDofs == InitPermute /\ [][NextFaceDofs]_vars

(***************************************************************************)
(* L2FaceRestriction::L2FaceRestriction                                    *)
(***************************************************************************)
(* the faces the scatter loop takes, and the faces the gather loops take *)
ScatterSelects(tp, fc) ==
  (tp = "Interior" /\ fc.e2 >= 0) \/ (tp = "Boundary" /\ fc.e2 < 0)

GatherSelects(tp, fc) ==
  \/ (tp = "Interior" /\ (fc.e2 >= 0 \/ (fc.e2 < 0 /\ fc.inf2 >= 0)))
  \/ (tp = "Boundary" /\ fc.e2 < 0 /\ fc.inf2 < 0)

(* orientation = inf2 % 64, face_id = inf / 64, and the two face maps; the
   face ids of a mesh face are listed by the switch of GetFaceDofs, so each
   call overwrites the whole of faceMap1 and faceMap2 *)
FaceInfo(fc, d, size1d, nDof) ==
  LET fid1 == CDiv(fc.inf1, 64)
      fid2 == CDiv(fc.inf2, 64)
  IN [orientation |-> CMod(fc.inf2, 64),
      face_id1 |-> fid1,
      face_id2 |-> fid2,
      faceMap1 |-> GetFaceDofs(d, fid1, size1d, Arr(nDof, Uninit)),
      faceMap2 |-> GetFaceDofs(d, fid2, size1d, Arr(nDof, Uninit))]

(* the global dof of slot d of the face on side 1, and on side 2 *)
Side1Gid(fc, fi, eMap, elem_dofs, d) == eMap[fc.e1 * elem_dofs + fi.faceMap1[d]]

Side2Gid(fc, fi, eMap, elem_dofs, dm, size1d, d) ==
  LET pd == PermuteFaceL2(dm, fi.face_id1, fi.face_id2, fi.orientation, size1d, d)
  IN eMap[fc.e2 * elem_dofs + fi.faceMap2[pd]]

(* the value of scatter_indices2 for a true boundary face *)
Sentinel == -1

(* computation of the scatter indices for face f; st = [f_ind, s1, s2] *)
ScatterFace(st, fc, tp, mode, dm, size1d, nDof, elem_dofs, eMap) ==
  IF ~ScatterSelects(tp, fc) THEN st
  ELSE
    LET base == nDof * st.f_ind
        mine == base..(base + nDof - 1)
    IN \* the bound variable holds the face data, computed once
       CHOOSE r \in
         {[f_ind |-> st.f_ind + 1,
           s1 |-> [lid \in DOMAIN st.s1 |->
                     IF lid \in mine
                     THEN Side1Gid(fc, fi, eMap, elem_dofs, lid - base)
                     ELSE st.s1[lid]],
           s2 |-> [lid \in DOMAIN st.s2 |->
                     IF mode = "DoubleValued" /\ lid \in mine
                     THEN IF tp = "Interior" /\ fc.e2 >= 0
                          THEN Side2Gid(fc, fi, eMap, elem_dofs, dm, size1d, lid - base)
                          ELSE IF tp = "Boundary" /\ fc.e2 < 0
                          THEN Sentinel
                          ELSE st.s2[lid]
                     ELSE st.s2[lid]]] :
            fi \in {FaceInfo(fc, dm, size1d, nDof)}} : TRUE

RECURSIVE ScatterFaces(_, _, _, _, _, _, _, _, _, _)
ScatterFaces(f, fcs, st, tp, mode, dm, size1d, nDof, elem_dofs, eMap) ==
  IF f >= Cardinality(DOMAIN fcs) THEN st
  ELSE ScatterFaces(f + 1, fcs,
                    ScatterFace(st, fcs[f], tp, mode, dm, size1d, nDof, elem_dofs, eMap),
                    tp, mode, dm, size1d, nDof, elem_dofs, eMap)

(* the global dofs face f contributes to, in the order of the two loops over
   d: <<gid, lid>> pairs, side 2 entries with lid shifted by nfdofs *)
FaceGids(f_ind, fc, fi, tp, mode, dm, size1d, nDof, elem_dofs, eMap, nfd) ==
  [k \in 1..(IF mode = "DoubleValued" /\ tp = "Interior" /\ fc.e2 >= 0
             THEN 2 * nDof ELSE nDof) |->
     IF k <= nDof
     THEN <<Side1Gid(fc, fi, eMap, elem_dofs, k - 1), nDof * f_ind + k - 1>>
     ELSE <<Side2Gid(fc, fi, eMap, elem_dofs, dm, size1d, k - 1 - nDof),
            nfd + nDof * f_ind + k - 1 - nDof>>]

(* ++offsets[gid + 1] for every entry of the list *)
RECURSIVE CountGids(_, _, _)
CountGids(k, gids, offs) ==
  IF k > Len(gids) THEN offs
  ELSE CountGids(k + 1, gids, [offs EXCEPT ![gids[k][1] + 1] = @ + 1])

(* gather_indices[offsets[gid]++] = lid for every entry of the list;
   st = [offs, gi], the result has f_ind = 0 as a third field *)
RECURSIVE PlaceGids(_, _, _)
PlaceGids(k, gids, st) ==
  IF k > Len(gids) THEN st
  ELSE LET gid == gids[k][1]
       IN PlaceGids(k + 1, gids,
                    [f_ind |-> 0,
                     offs |-> [st.offs EXCEPT ![gid] = @ + 1],
                     gi |-> [st.gi EXCEPT ![st.offs[gid]] = gids[k][2]]])

(* the counting loop and the filling loop over the faces;
   st = [f_ind, offs, gi] *)
GatherFace(st, fc, fill, tp, mode, dm, size1d, nDof, elem_dofs, eMap, nfd) ==
  IF ~GatherSelects(tp, fc) THEN st
  ELSE
    CHOOSE r \in
      {IF fill
       THEN [PlaceGids(1, gids, [offs |-> st.offs, gi |-> st.gi])
               EXCEPT !.f_ind = st.f_ind + 1]
       ELSE [f_ind |-> st.f_ind + 1, offs |-> CountGids(1, gids, st.offs),
             gi |-> st.gi] :
         gids \in {FaceGids(st.f_ind, fc, FaceInfo(fc, dm, size1d, nDof), tp, mode,
                            dm, size1d, nDof, elem_dofs, eMap, nfd)}} : TRUE

RECURSIVE GatherFaces(_, _, _, _, _, _, _, _, _, _, _, _)
GatherFaces(f, fcs, st, fill, tp, mode, dm, size1d, nDof, elem_dofs, eMap, nfd) ==
  IF f >= Cardinality(DOMAIN fcs) THEN st
  ELSE GatherFaces(f + 1, fcs,
                   GatherFace(st, fcs[f], fill, tp, mode, dm, size1d, nDof,
                              elem_dofs, eMap, nfd),
                   fill, tp, mode, dm, size1d, nDof, elem_dofs, eMap, nfd)

(* [status, scatter_indices1, scatter_indices2, offsets, gather_indices];
   with nf = 0 the constructor returns with the arrays as allocated, a
   native ordering request and a face count that differs from nf are errors *)
L2Alloc(mode, nfd, nd) ==
  [status |-> "built",
   scatter_indices1 |-> Arr(nfd, Uninit),
   scatter_indices2 |-> Arr(IF mode = "DoubleValued" THEN nfd ELSE 0, Uninit),
   offsets |-> Arr(nd + 1, Uninit),
   gather_indices |-> Arr((IF mode = "DoubleValued" THEN 2 ELSE 1) * nfd, Uninit)]

L2Construct(fcs, tp, mode, reorder, dm, size1d, nFaces, nDof, elem_dofs, nd, eMap) ==
  LET nfd == nFaces * nDof
      alloc == L2Alloc(mode, nfd, nd)
      Scattered == ScatterFaces(0, fcs, [f_ind |-> 0, s1 |-> alloc.scatter_indices1,
                                         s2 |-> alloc.scatter_indices2],
                                tp, mode, dm, size1d, nDof, elem_dofs, eMap)
      Counted == GatherFaces(0, fcs, [f_ind |-> 0, offs |-> Arr(nd + 1, 0),
                                      gi |-> alloc.gather_indices],
                             FALSE, tp, mode, dm, size1d, nDof, elem_dofs, eMap, nfd)
      Filled(cnt) == GatherFaces(0, fcs, [f_ind |-> 0, offs |-> Aggregate(1, nd, cnt.offs),
                                          gi |-> alloc.gather_indices],
                                 TRUE, tp, mode, dm, size1d, nDof, elem_dofs, eMap, nfd)
  IN IF nFaces = 0 THEN alloc
     ELSE IF ~reorder THEN [alloc EXCEPT !.status = "error"]
     ELSE \* the bound variables hold the results of the loops, computed once
       CHOOSE r \in
         {IF sc.f_ind # nFaces \/ cnt.f_ind # nFaces
          THEN [alloc EXCEPT !.status = "error"]
          ELSE CHOOSE q \in
                 {IF fil.f_ind # nFaces THEN [alloc EXCEPT !.status = "error"]
                  ELSE [status |-> "built",
                        scatter_indices1 |-> sc.s1,
                        scatter_indices2 |-> sc.s2,
                        offsets |-> ShiftBack(nd, fil.offs),
                        gather_indices |-> fil.gi] :
                    fil \in {Filled(cnt)}} : TRUE :
            sc \in {Scattered}, cnt \in {Counted}} : TRUE

(***************************************************************************)
(* H1FaceRestriction::H1FaceRestriction                                    *)
(***************************************************************************)
(* tfe != NULL && (GaussLobatto || Positive) *)
BasisOk(tns, bs) == tns[0] /\ bs \in {"GaussLobatto", "Positive"}

(* the face element of f is a TensorBasisElement: it is the trace of the
   element e1 of the face *)
FaceElementsTensor(fcs, tns) == \A f \in DOMAIN fcs : tns[fcs[f].e1]

(* gid of slot d of a face: elementMap[e1*elem_dofs + did] *)
H1Gid(fc, faceMap, eMap, elem_dofs, reorder, dmap, d) ==
  LET face_dof == faceMap[d]
      did == IF ~reorder THEN face_dof ELSE dmap[face_dof]
  IN eMap[fc.e1 * elem_dofs + did]

(* the <<gid, lid>> pairs of face f_ind, in the order of the loop over d *)
H1FaceGids(f_ind, fc, dm, size1d, nDof, elem_dofs, eMap, reorder, dmap) ==
  [k \in 1..nDof |->
     <<H1Gid(fc, GetFaceDofs(dm, CDiv(fc.inf1, 64), size1d, Arr(nDof, Uninit)),
             eMap, elem_dofs, reorder, dmap, k - 1),
       nDof * f_ind + k - 1>>]

(* the three loops over the faces: which = "scatter", "count" or "fill";
   st = [f_ind, err, si, offs, gi] *)
H1Face(st, fc, which, tp, dm, size1d, nDof, elem_dofs, eMap, reorder, dmap) ==
  IF st.err \/ ~GatherSelects(tp, fc) THEN st
  ELSE IF which = "scatter" /\ (~reorder \/ CMod(fc.inf1, 64) # 0)
  THEN [st EXCEPT !.err = TRUE]
  ELSE
    CHOOSE r \in
      {CASE which = "scatter" ->
              [st EXCEPT !.f_ind = @ + 1,
                         !.si = [lid \in DOMAIN st.si |->
                                   IF lid \in (nDof * st.f_ind)..(nDof * st.f_ind + nDof - 1)
                                   THEN gids[lid - nDof * st.f_ind + 1][1]
                                   ELSE st.si[lid]]]
         [] which = "count" ->
              [st EXCEPT !.f_ind = @ + 1, !.offs = CountGids(1, gids, st.offs)]
         [] which = "fill" ->
              CHOOSE q \in {[st EXCEPT !.f_ind = @ + 1, !.offs = pl.offs, !.gi = pl.gi] :
                              pl \in {PlaceGids(1, gids, [offs |-> st.offs,
                                                          gi |-> st.gi])}} : TRUE :
         gids \in {H1FaceGids(st.f_ind, fc, dm, size1d, nDof, elem_dofs, eMap,
                              reorder, dmap)}} : TRUE

RECURSIVE H1Faces(_, _, _, _, _, _, _, _, _, _, _, _)
H1Faces(f, fcs, st, which, tp, dm, size1d, nDof, elem_dofs, eMap, reorder, dmap) ==
  IF f >= Cardinality(DOMAIN fcs) THEN st
  ELSE H1Faces(f + 1, fcs,
               H1Face(st, fcs[f], which, tp, dm, size1d, nDof, elem_dofs, eMap,
                      reorder, dmap),
               which, tp, dm, size1d, nDof, elem_dofs, eMap, reorder, dmap)

(* [status, scatter_indices, offsets, gather_indices]; with nf = 0 the
   constructor returns at once with the arrays as allocated *)
H1Construct(fcs, tp, reorder, dm, size1d, nFaces, nDof, elem_dofs, nd, eMap, dmap, tns, bs, conf) ==
  LET nfd == nFaces * nDof
      alloc == [status |-> "built",
                scatter_indices |-> Arr(nfd, Uninit),
                offsets |-> Arr(nd + 1, Uninit),
                gather_indices |-> Arr(nfd, Uninit)]
      failed == [alloc EXCEPT !.status = "error"]
      start == [f_ind |-> 0, err |-> FALSE, si |-> alloc.scatter_indices,
                offs |-> Arr(nd + 1, 0), gi |-> alloc.gather_indices]
      Loop(which, st) == H1Faces(0, fcs, [st EXCEPT !.f_ind = 0], which, tp, dm, size1d,
                                 nDof, elem_dofs, eMap, reorder, dmap)
  IN IF nFaces = 0 THEN alloc
     ELSE IF ~BasisOk(tns, bs) \/ ~conf THEN failed
     ELSE IF reorder /\ ~FaceElementsTensor(fcs, tns) THEN failed
     ELSE
       CHOOSE r \in
         {IF sc.err \/ sc.f_ind # nFaces THEN failed
          ELSE CHOOSE q \in
            {IF cnt.f_ind # nFaces THEN failed
             ELSE CHOOSE q2 \in
               {IF fil.f_ind # nFaces THEN failed
                ELSE [status |-> "built",
                      scatter_indices |-> sc.si,
                      offsets |-> ShiftBack(nd, fil.offs),
                      gather_indices |-> fil.gi] :
                  fil \in {Loop("fill", [cnt EXCEPT !.offs = Aggregate(1, nd, cnt.offs)])}} :
                 TRUE :
               cnt \in {Loop("count", sc)}} : TRUE :
            sc \in {Loop("scatter", start)}} : TRUE

(***************************************************************************)
(* L2FaceRestriction::Mult                                                 *)
(***************************************************************************)
(* the side-2 value for component c: [v, read], read the position of x that
   was read, or {} *)
Side2ValueNoTest(idx2, xv, t, vd, nd, c) ==
  LET p == GIdx(t, vd, nd, idx2, c)
  IN [v |-> IF p \in DOMAIN xv THEN xv[p] ELSE Uninit, read |-> {<<idx2, p>>}]

Side2Value(idx2, xv, t, vd, nd, c) ==
  IF idx2 = -1 THEN [v |-> 0, read |-> {}]
  ELSE LET p == GIdx(t, vd, nd, idx2, c)
       IN [v |-> xv[p], read |-> {<<idx2, p>>}]

(* Reshape(y, nd, vd, 2, nf)(d, c, side, face) *)
Idx4(n0, n1, n2, i0, i1, i2, i3) == i0 + n0 * (i1 + n1 * (i2 + n2 * i3))

(* MFEM_FORALL(i, nfdofs) with the loops over c; k enumerates (i, c);
   st = [y, acc] *)
RECURSIVE L2MultLoop(_, _, _, _, _, _, _, _, _, _, _)
L2MultLoop(k, nfd, nDof, vd, t, nd, mode, si1, si2, xv, st) ==
  IF k >= nfd * vd THEN st
  ELSE LET i == k \div vd
           c == k % vd
           d == i % nDof
           face == i \div nDof
           idx1 == si1[i]
           v1 == xv[GIdx(t, vd, nd, idx1, c)]
       IN IF mode = "DoubleValued"
          THEN LET s2 == Side2Value(si2[i], xv, t, vd, nd, c)
               IN L2MultLoop(k + 1, nfd, nDof, vd, t, nd, mode, si1, si2, xv,
                    [y |-> [st.y EXCEPT ![Idx4(nDof, vd, 2, d, c, 0, face)] = v1,
                                        ![Idx4(nDof, vd, 2, d, c, 1, face)] = s2.v],
                     acc |-> st.acc \cup {<<idx1, GIdx(t, vd, nd, idx1, c)>>}
                               \cup s2.read])
          ELSE L2MultLoop(k + 1, nfd, nDof, vd, t, nd, mode, si1, si2, xv,
                    [y |-> [st.y EXCEPT ![Idx3(nDof, vd, d, c, face)] = v1],
                     acc |-> st.acc \cup {<<idx1, GIdx(t, vd, nd, idx1, c)>>}])

(***************************************************************************)
(* L2FaceRestriction::MultTranspose, H1FaceRestriction::Mult and           *)
(* H1FaceRestriction::MultTranspose                                        *)
(***************************************************************************)
(* the position of d_x the entry idx_j of gather_indices names *)
FaceGatherPos(idx_j, nDof, vd, nfd, mode, c) ==
  IF mode = "DoubleValued"
  THEN LET isE1 == idx_j < nfd
           k == IF isE1 THEN idx_j ELSE idx_j - nfd
       IN Idx4(nDof, vd, 2, CMod(k, nDof), c, IF isE1 THEN 0 ELSE 1, CDiv(k, nDof))
  ELSE Idx3(nDof, vd, CMod(idx_j, nDof), c, CDiv(idx_j, nDof))

(* dofValue of (i, c): [v, ub], ub when a position outside gather_indices or
   outside x is read, or a remainder by nd = 0 is taken *)
RECURSIVE FaceBucketSum(_, _, _, _, _, _, _, _, _)
FaceBucketSum(j, nextOffset, gi, xv, nDof, vd, nfd, mode, c) ==
  IF j >= nextOffset THEN [v |-> 0, ub |-> FALSE]
  ELSE IF j \notin DOMAIN gi \/ nDof = 0 THEN [v |-> 0, ub |-> TRUE]
  ELSE LET pos == FaceGatherPos(gi[j], nDof, vd, nfd, mode, c)
       IN IF pos \notin DOMAIN xv THEN [v |-> 0, ub |-> TRUE]
          ELSE CHOOSE r \in {[rest EXCEPT !.v = @ + xv[pos]] :
                 rest \in {FaceBucketSum(j + 1, nextOffset, gi, xv, nDof, vd, nfd,
                                         mode, c)}} : TRUE

(* d_y(t?c:i,t?i:c) += dofValue *)
FaceStore(old, dofValue) == old + dofValue

(* MFEM_FORALL(i, ndofs) with the loop over c; k enumerates (i, c);
   st = [y, ub] *)
RECURSIVE FaceMultTransposeLoop(_, _, _, _, _, _, _, _, _, _, _)
FaceMultTransposeLoop(k, nd, nDof, vd, t, nfd, mode, offs, gi, xv, st) ==
  IF k >= nd * vd THEN st
  ELSE LET i == k \div vd
           c == k % vd
       IN CHOOSE r \in
            {FaceMultTransposeLoop(k + 1, nd, nDof, vd, t, nfd, mode, offs, gi, xv,
               [y |-> [st.y EXCEPT ![GIdx(t, vd, nd, i, c)] = FaceStore(@, b.v)],
                ub |-> st.ub \/ b.ub]) :
               b \in {FaceBucketSum(offs[i], offs[i + 1], gi, xv, nDof, vd, nfd,
                                    mode, c)}} : TRUE

L2MultTransposeLoop(nd, nDof, vd, t, nfd, mode, offs, gi, xv, yv) ==
  FaceMultTransposeLoop(0, nd, nDof, vd, t, nfd, mode, offs, gi, xv,
                        [y |-> yv, ub |-> FALSE])

(* the loop of H1FaceRestriction::MultTranspose is the single-valued loop *)
H1MultTransposeLoop(nd, nDof, vd, t, nfd, offs, gi, xv, yv) ==
  FaceMultTransposeLoop(0, nd, nDof, vd, t, nfd, "SingleValued", offs, gi, xv,
                        [y |-> yv, ub |-> FALSE])

(* the loop of H1FaceRestriction::Mult is the single-valued loop *)
H1MultLoop(nfd, nDof, vd, t, nd, si, xv, yv) ==
  L2MultLoop(0, nfd, nDof, vd, t, nd, "SingleValued", si, <<>>, xv,
             [y |-> yv, acc |-> {}])

(***************************************************************************)
(* The meshes and spaces a face restriction is built from.                 *)
(***************************************************************************)
(* a boundary face of element e, an interior face between a and b, a < b *)
BoundaryFaces(nE, d) ==
  {[e1 |-> e, e2 |-> -1, inf1 |-> 64 * fid, inf2 |-> -1] :
     e \in 0..(nE - 1), fid \in FaceIds(d)}

InteriorFaces(nE, d) ==
  {[e1 |-> ab[1], e2 |-> ab[2], inf1 |-> 64 * f1, inf2 |-> 64 * f2 + o] :
     ab \in {p \in (0..(nE - 1)) \X (0..(nE - 1)) : p[1] < p[2]},
     f1 \in FaceIds(d), f2 \in FaceIds(d), o \in Orientations(d)}

(* the (element, reference face) pairs a face occupies *)
Uses(fc) == {<<fc.e1, fc.inf1 \div 64>>}
              \cup (IF fc.e2 >= 0 THEN {<<fc.e2, fc.inf2 \div 64>>} ELSE {})

(* conforming serial meshes: no reference face of an element is used twice,
   two elements share at most one face *)
Meshes(nE, d) ==
  LET all == BoundaryFaces(nE, d) \cup InteriorFaces(nE, d)
  IN UNION {{fcs \in [0..(n - 1) -> all] :
               \A f, g \in 0..(n - 1) :
                 f # g => /\ Uses(fcs[f]) \cap Uses(fcs[g]) = {}
                          /\ ~(fcs[f].e2 >= 0 /\ fcs[f].e1 = fcs[g].e1
                               /\ fcs[f].e2 = fcs[g].e2)} :
            n \in 0..MaxNF}

(* fes.GetNFbyType(type) *)
NFbyType(fcs, tp) == Cardinality({f \in DOMAIN fcs : GatherSelects(tp, fcs[f])})

(* the basis types, and the spaces on which a face restriction can be built *)
BasisTypes == {"GaussLobatto", "Positive", "Other"}

FacePre == BasisOk(tensor, basis) /\ conforming /\ dof_reorder

(* the spaces and ordering requests: the ones every check accepts, and the
   ones with one defect: native ordering, another basis, an element 0 that is
   not a tensor-basis element, a later element that is not, a non-conforming
   mesh *)
FaceSpaces(nE) ==
  LET good == [tensor |-> [e \in 0..(nE - 1) |-> TRUE], basis |-> "GaussLobatto",
               conforming |-> TRUE, dof_reorder |-> TRUE]
  IN {good,
      [good EXCEPT !.basis = "Positive"],
      [good EXCEPT !.dof_reorder = FALSE],
      [good EXCEPT !.basis = "Other"],
      [good EXCEPT !.tensor = [e \in 0..(nE - 1) |-> FALSE]],
      [good EXCEPT !.tensor = [e \in 0..(nE - 1) |-> e = 0]],
      [good EXCEPT !.conforming = FALSE]}

(* a request with a defect, and one on a Bernstein basis, is drawn once for
   every mesh, face type and mode *)
FaceSpace ==
  \E sp \in FaceSpaces(ne) :
    /\ tensor = sp.tensor
    /\ basis = sp.basis
    /\ conforming = sp.conforming
    /\ dof_reorder = sp.dof_reorder
    /\ (FacePre /\ basis = "GaussLobatto") \/ (dof1d = 2 /\ vdim = 1)

(* an L2 space: element e owns the dofs e*elemDofs .. (e+1)*elemDofs-1 *)
InitFace ==
  /\ pc = "new"
  /\ dim \in 1..MaxDim
  /\ dof1d \in 1..MaxDof1d
  /\ ne \in 1..MaxNe
  /\ faces \in Meshes(ne, dim)
  /\ type \in {"Interior", "Boundary"}
  /\ m \in {"SingleValued", "DoubleValued"}
  /\ nf = NFbyType(faces, type)
  /\ dof = (IF nf > 0 THEN FaceDofs(dim, dof1d) ELSE 0)
  /\ elemDofs = Power(dof1d, dim)
  /\ ndofs = ne * elemDofs
  /\ elementMap = [k \in 0..(ne * elemDofs - 1) |-> k]
  /\ vdim \in 1..MaxVdim
  /\ byvdim \in (IF vdim > 1 THEN BOOLEAN ELSE {FALSE})
  /\ FaceSpace
  /\ dof_map = <<>>
  /\ scatter_indices1 = <<>> /\ scatter_indices2 = <<>> /\ gather_indices = <<>>
  /\ NoNormal
  /\ offsets = <<>> /\ indices = <<>> /\ gatherMap = <<>>
  /\ face_id1 = 0 /\ face_id2 = 0 /\ orientation = 0 /\ perm = <<>> /\ faceMap1 = <<>>
  /\ NoIO

(* what storage that was allocated and never written can hold *)
Unwritten(n) == {Arr(n, 0), [i \in 0..(n - 1) |-> i]}

(* the checks made before nf is looked at, and the check of the trace
   elements made for lexicographic ordering *)
L2Checks(fcs, reorder, nFaces, tns, bs, conf) ==
  /\ BasisOk(tns, bs)
  /\ conf
  /\ (nFaces > 0 /\ reorder) => FaceElementsTensor(fcs, tns)

(* offsets of an object that was returned with nf = 0 was never written *)
L2FaceConstruct ==
  /\ pc = "new"
  /\ \E r \in {IF L2Checks(faces, dof_reorder, nf, tensor, basis, conforming)
                THEN L2Construct(faces, type, m, dof_reorder, dim, dof1d, nf, dof,
                                 elemDofs, ndofs, elementMap)
                ELSE [L2Alloc(m, nf * dof, ndofs) EXCEPT !.status = "error"]} :
        /\ pc' = r.status
        /\ scatter_indices1' = r.scatter_indices1
        /\ scatter_indices2' = r.scatter_indices2
        /\ offsets' \in (IF r.status = "built" /\ nf = 0
                         THEN Unwritten(ndofs + 1) ELSE {r.offsets})
        /\ gather_indices' = r.gather_indices
  /\ UNCHANGED <<faces, type, m, nf, elemDofs, fesVars, normVars, parVars, indices, gatherMap, ioVars,
                 matVars, permVars>>

(* the values of the caller's global vector, and what y held before *)
ScatterInputs(n) == {[k \in 0..(n - 1) |-> k + 1]}

L2Mult ==
  /\ pc = "built"
  /\ \E xv \in ScatterInputs(vdim * ndofs),
        yv \in PriorVectors((IF m = "DoubleValued" THEN 2 ELSE 1) * vdim * nf * dof) :
       \E r \in {L2MultLoop(0, nf * dof, dof, vdim, byvdim, ndofs, m,
                              scatter_indices1, scatter_indices2, xv,
                              [y |-> yv, acc |-> {}])} :
          /\ x' = xv
          /\ y0' = yv
          /\ y' = r.y
          /\ acc' = r.acc
          /\ ub' = \E a \in r.acc : a[2] \notin DOMAIN xv
  /\ pc' = "L2Mult"
  /\ UNCHANGED <<faceVars, permVars, fesVars, normVars, parVars, erVars, matVars>>

(* the values of the caller's local vector: the sums over different sets of
   entries are different *)
RECURSIVE Pow2(_)
Pow2(k) == IF k = 0 THEN 1 ELSE 2 * Pow2(k - 1)

GatherInputs(n) == {[k \in 0..(n - 1) |-> Pow2(k)]}

(* reading outside an array is undefined: the call may also not return *)
L2MultTranspose ==
  /\ pc = "built"
  /\ \E xv \in GatherInputs((IF m = "DoubleValued" THEN 2 ELSE 1) * vdim * nf * dof),
        yv \in PriorVectors(vdim * ndofs) :
       \E r \in {L2MultTransposeLoop(ndofs, dof, vdim, byvdim, nf * dof, m, offsets,
                                       gather_indices, xv, yv)} :
          /\ x' = xv
          /\ y0' = yv
          /\ y' = r.y
          /\ ub' = r.ub
          /\ pc' \in (IF r.ub THEN {"L2MultTranspose", "stopped"}
                       ELSE {"L2MultTranspose"})
  /\ UNCHANGED <<acc, faceVars, permVars, fesVars, normVars, parVars, erVars, matVars>>

(***************************************************************************)
(* H1 spaces and the operations of an H1FaceRestriction; scatter_indices1  *)
(* holds H1FaceRestriction::scatter_indices.                               *)
(***************************************************************************)
(* a dof map that is a permutation of the element dofs *)
ReversedMap(n) == [d \in 0..(n - 1) |-> n - 1 - d]

(* the native dofs of element e2 on the face fc, paired with the native dofs
   of e1 they coincide with: the pairing of the two sides is PermuteFaceL2 *)
GluedDofs(fc, dm, size1d, dmap) ==
  LET nDof == FaceDofs(dm, size1d)
      fid1 == CDiv(fc.inf1, 64)
      fid2 == CDiv(fc.inf2, 64)
      fm1 == GetFaceDofs(dm, fid1, size1d, Arr(nDof, Uninit))
      fm2 == GetFaceDofs(dm, fid2, size1d, Arr(nDof, Uninit))
  IN {<<dmap[fm2[PermuteFaceL2(dm, fid1, fid2, CMod(fc.inf2, 64), size1d, d)]],
        dmap[fm1[d]]>> : d \in 0..(nDof - 1)}

(* the element-to-dof table of the H1 space of a mesh of at most two
   elements: element 0 owns its dofs, element 1 shares those of an interior
   face with element 0 and owns the rest *)
H1ElementMap(fcs, nE, dm, size1d, elem_dofs, dmap) ==
  LET inner == {f \in DOMAIN fcs : fcs[f].e2 >= 0}
      glued == IF inner = {} THEN {}
               ELSE GluedDofs(fcs[CHOOSE f \in inner : TRUE], dm, size1d, dmap)
      shared == {g[1] : g \in glued}
      Fresh(k) == elem_dofs + Cardinality({k2 \in 0..(k - 1) : k2 \notin shared})
  IN [j \in 0..(nE * elem_dofs - 1) |->
        IF j < elem_dofs THEN j
        ELSE LET k == j - elem_dofs
             IN IF k \in shared
                THEN (CHOOSE g \in glued : g[1] = k)[2]
                ELSE Fresh(k)]

InitH1Face ==
  /\ pc = "newH1"
  /\ dim \in 1..MaxDim
  /\ dof1d \in 2..MaxDof1d
  /\ ne \in 1..MaxNe
  /\ faces \in Meshes(ne, dim)
  /\ type \in {"Interior", "Boundary"}
  /\ m = "SingleValued"
  /\ nf = NFbyType(faces, type)
  /\ dof = (IF nf > 0 THEN FaceDofs(dim, dof1d) ELSE 0)
  /\ elemDofs = Power(dof1d, dim)
  /\ vdim \in 1..MaxVdim
  /\ byvdim \in (IF vdim > 1 THEN BOOLEAN ELSE {FALSE})
  /\ FaceSpace
  /\ dof_map = ReversedMap(elemDofs)
  /\ elementMap = H1ElementMap(faces, ne, dim, dof1d, elemDofs, dof_map)
  /\ ndofs = ne * elemDofs
              - Cardinality({j \in DOMAIN elementMap : j >= elemDofs /\ elementMap[j] < elemDofs})
  /\ scatter_indices1 = <<>> /\ scatter_indices2 = <<>> /\ gather_indices = <<>>
  /\ NoNormal
  /\ offsets = <<>> /\ indices = <<>> /\ gatherMap = <<>>
  /\ face_id1 = 0 /\ face_id2 = 0 /\ orientation = 0 /\ perm = <<>> /\ faceMap1 = <<>>
  /\ NoIO

H1FaceConstruct ==
  /\ pc = "newH1"
  /\ \E r \in {H1Construct(faces, type, dof_reorder, dim, dof1d, nf, dof, elemDofs,
                             ndofs, elementMap, dof_map, tensor, basis, conforming)} :
        /\ pc' = (IF r.status = "built" THEN "builtH1" ELSE "error")
        /\ scatter_indices1' = r.scatter_indices
        /\ offsets' \in (IF r.status = "built" /\ nf = 0
                         THEN Unwritten(ndofs + 1) ELSE {r.offsets})
        /\ gather_indices' = r.gather_indices
  /\ UNCHANGED <<faces, type, m, nf, elemDofs, scatter_indices2, fesVars, normVars, parVars, indices,
                 gatherMap, ioVars, matVars, permVars>>

H1Mult ==
  /\ pc = "builtH1"
  /\ \E xv \in ScatterInputs(vdim * ndofs), yv \in PriorVectors(vdim * nf * dof) :
       \E r \in {H1MultLoop(nf * dof, dof, vdim, byvdim, ndofs, scatter_indices1,
                              xv, yv)} :
          /\ x' = xv
          /\ y0' = yv
          /\ y' = r.y
          /\ acc' = r.acc
          /\ ub' = \E a \in r.acc : a[2] \notin DOMAIN xv
  /\ pc' = "H1Mult"
  /\ UNCHANGED <<faceVars, permVars, fesVars, normVars, parVars, erVars, matVars>>

H1MultTranspose ==
  /\ pc = "builtH1"
  /\ \E xv \in GatherInputs(vdim * nf * dof), yv \in PriorVectors(vdim * ndofs) :
       \E r \in {H1MultTransposeLoop(ndofs, dof, vdim, byvdim, nf * dof, offsets,
                                       gather_indices, xv, yv)} :
          /\ x' = xv
          /\ y0' = yv
          /\ y' = r.y
          /\ ub' = r.ub
          /\ pc' \in (IF r.ub THEN {"H1MultTranspose", "stopped"}
                       ELSE {"H1MultTranspose"})
  /\ UNCHANGED <<acc, faceVars, permVars, fesVars, normVars, parVars, erVars, matVars>>

NextFace ==
  \/ L2FaceConstruct
  \/ L2Mult
  \/ L2MultTranspose
  \/ H1FaceConstruct
  \/ H1Mult
  \/ H1MultTranspose

SpecFace == (InitFace \/ InitH1Face) /\ [][NextFace]_vars

(***************************************************************************)
(* L2FaceNormalDRestriction::L2FaceNormalDRestriction                      *)
(***************************************************************************)
MaxNDDof1d == 2

Get_dof_from_ijk(i, j, k, size1d) == i + size1d * j + size1d * size1d * k

(* facemapnor after the call; dimension 1 ends in MFEM_ABORT *)
GetNormalDFaceDofStencil(d, face_id, size1d, facemapnor) ==
  LET end == size1d - 1
  IN CASE d = 2 ->
            [p \in DOMAIN facemapnor |->
               LET i == p \div size1d
                   s == p % size1d
               IN CASE face_id = 0 -> Get_dof_from_ijk(i, s, 0, size1d)
                    [] face_id = 1 -> Get_dof_from_ijk(end - s, i, 0, size1d)
                    [] face_id = 2 -> Get_dof_from_ijk(i, end - s, 0, size1d)
                    [] face_id = 3 -> Get_dof_from_ijk(s, i, 0, size1d)]
       [] d = 3 ->
            [p \in DOMAIN facemapnor |->
               LET s == p % size1d
                   i == (p \div size1d) % size1d
                   j == p \div (size1d * size1d)
               IN CASE face_id = 0 -> Get_dof_from_ijk(i, j, s, size1d)
                    [] face_id = 1 -> Get_dof_from_ijk(i, s, j, size1d)
                    [] face_id = 2 -> Get_dof_from_ijk(end - s, i, j, size1d)
                    [] face_id = 3 -> Get_dof_from_ijk(i, end - s, j, size1d)
                    [] face_id = 4 -> Get_dof_from_ijk(s, i, j, size1d)
                    [] face_id = 5 -> Get_dof_from_ijk(i, j, end - s, size1d)]
       [] OTHER -> facemapnor

(* facemaptan1 after the call: the switch has a case for dimension 2 only,
   in dimension 3 the call returns with the array as it was; facemaptan2 is
   never written *)
GetTangentDFaceDofStencil(d, face_id, size1d, facemaptan1) ==
  LET end == size1d - 1
  IN CASE d = 2 ->
            [p \in DOMAIN facemaptan1 |->
               LET s == p % size1d
               IN CASE face_id = 0 -> Get_dof_from_ijk(s, 0, 0, size1d)
                    [] face_id = 1 -> Get_dof_from_ijk(end, s, 0, size1d)
                    [] face_id = 2 -> Get_dof_from_ijk(s, end, 0, size1d)
                    [] face_id = 3 -> Get_dof_from_ijk(0, s, 0, size1d)]
       [] OTHER -> facemaptan1

(* elementMap[elemid*elem_dofs + facemap[ipid*dof1d+k]]; Uninit stands for
   what a read outside elementMap gives *)
GetGid(ipid, k, size1d, elemid, elem_dofs, facemap, eMap) ==
  LET at == elemid * elem_dofs + facemap[ipid * size1d + k]
  IN IF at \in DOMAIN eMap THEN eMap[at] ELSE Uninit

GetLid(ipid, k, size1d, nDofs, face_id, facemap, d) == nDofs * face_id + size1d * d + k

(* the f_ind-th face the loops take *)
NDFace(f_ind) ==
  faces[CHOOSE f \in DOMAIN faces :
          /\ GatherSelects(type, faces[f])
          /\ Cardinality({g \in DOMAIN faces : g < f /\ GatherSelects(type, faces[g])}) = f_ind]

(* the face ids, orientations and stencils of a face; tan0 is what the
   tangential stencil arrays held before the calls *)
NDInfo(fc, tan0) ==
  [orientation1 |-> CMod(fc.inf1, 64),
   orientation2 |-> CMod(fc.inf2, 64),
   face_id1 |-> CDiv(fc.inf1, 64),
   face_id2 |-> CDiv(fc.inf2, 64),
   facemapnorself |-> GetNormalDFaceDofStencil(dim, CDiv(fc.inf1, 64), dof1d, tan0),
   facemapnorother |-> GetNormalDFaceDofStencil(dim, CDiv(fc.inf2, 64), dof1d, tan0),
   facemaptan1self |-> GetTangentDFaceDofStencil(dim, CDiv(fc.inf1, 64), dof1d, tan0),
   facemaptan1other |-> GetTangentDFaceDofStencil(dim, CDiv(fc.inf2, 64), dof1d, tan0)]

(* the scatter tables: entry p = dof1d*dof*f_ind + dof1d*d + k; the second
   side is written for an interior face, the sentinel for a boundary face *)
NDScatter(tan0) ==
  LET n == dof1d * dof
      fcOf(p) == NDFace(p \div n)
      At(p, e, map) == GetGid((p % n) \div dof1d, p % dof1d, dof1d, e, elemDofs, map,
                              elementMap)
      two == IF m = "DoubleValued" THEN nf * n ELSE 0
  IN [scatter_indices1 |->
        [p \in 0..(nf * n - 1) |->
           At(p, fcOf(p).e1, NDInfo(fcOf(p), tan0).facemapnorself)],
      scatter_indices_tan1 |->
        [p \in 0..(nf * n - 1) |->
           At(p, fcOf(p).e1, NDInfo(fcOf(p), tan0).facemaptan1self)],
      scatter_indices2 |->
        [p \in 0..(two - 1) |->
           IF type = "Interior"
           THEN At(p, fcOf(p).e2, NDInfo(fcOf(p), tan0).facemapnorother)
           ELSE Sentinel],
      scatter_indices2_tan1 |->
        [p \in 0..(two - 1) |->
           IF type = "Interior"
           THEN At(p, fcOf(p).e2, NDInfo(fcOf(p), tan0).facemaptan1self)
           ELSE Uninit]]

(* k or dof1d-1-k *)
Flip(orient, k) == IF orient = 1 THEN k ELSE dof1d - 1 - k

(* the <<gid, lid>> pairs of the counting pass (fill = FALSE) and of the fill
   pass (fill = TRUE) for the normal tables (nor = TRUE) and the tangential
   ones, in the order of the loops: for every face the entries of side 1,
   then in double-valued mode on an interior face the entries of side 2.
   The counting pass permutes with orientation1, the fill pass with
   orientation2; the tangential stencils are the ones the last face of the
   scatter loop left *)
NDGids(nor, fill, tan0) ==
  LET n == dof1d * dof
      per == IF m = "DoubleValued" /\ type = "Interior" THEN 2 * n ELSE n
      last == NDInfo(faces[Cardinality(DOMAIN faces) - 1], tan0)
  IN [q \in 1..(nf * per) |->
        LET f_ind == (q - 1) \div per
            r == (q - 1) % per
            d == (r % n) \div dof1d
            k == r % dof1d
            fc == NDFace(f_ind)
            fi == NDInfo(fc, tan0)
            o == IF fill THEN fi.orientation2 ELSE fi.orientation1
            pd == PermuteFaceL2(dim, fi.face_id1, fi.face_id2, o, dof1d, d)
            kk == IF nor THEN Flip(o, k) ELSE Flip(fi.orientation1, k)
        IN IF r < n
           THEN <<GetGid(d, k, dof1d, fc.e1, elemDofs,
                         IF nor THEN fi.facemapnorself ELSE last.facemaptan1self,
                         elementMap),
                  GetLid(d, k, dof1d, n, f_ind, fi.facemapnorself, d)>>
           ELSE <<GetGid(pd, kk, dof1d, fc.e2, elemDofs,
                         IF nor THEN fi.facemapnorother ELSE last.facemaptan1other,
                         elementMap),
                  2 * nf * n + GetLid(pd, kk, dof1d, n, f_ind, fi.facemapnorother, d)>>]

(* one pair of tables: counting, the sums, the filling, the shift back *)
NDGather(nor, tan0) ==
  LET size == (IF m = "DoubleValued" THEN 2 ELSE 1) * nf * dof * dof1d
  IN CHOOSE r \in
       {[offs |-> ShiftBack(ndofs, fil.offs), gi |-> fil.gi] :
          fil \in {PlaceGids(1, NDGids(nor, TRUE, tan0),
                             [offs |-> Aggregate(1, ndofs,
                                         CountGids(1, NDGids(nor, FALSE, tan0),
                                                   Arr(ndofs + 1, 0))),
                              gi |-> Arr(size, Uninit)])}} : TRUE

(* the accesses outside an array: scatter_indices2 and its tangential
   companion have size 0 in single-valued mode and are written for every
   face, elementMap is read for element e2 = -1 on a boundary face, and in
   dimension 3 the tangential stencils are read without having been written *)
NDOutside == nf > 0 /\ (m = "SingleValued" \/ type = "Boundary" \/ dim = 3)

(* PermuteDFaceDNormL2 in the fill pass of side 2 ends in mfem_error in a
   dimension other than 1 and 2 *)
NDLateError == nf > 0 /\ dim = 3 /\ m = "DoubleValued" /\ type = "Interior"

(* the explicit errors: the checks before nf is looked at; with faces, a
   native ordering request, a trace element that is not a tensor element,
   MFEM_ABORT of the stencil in dimension 1, and the error of the fill pass *)
NDError ==
  \/ ~(tensor[0] /\ basis \in {"GaussLobatto", "Positive"} /\ conforming)
  \/ nf > 0 /\ (~dof_reorder \/ ~FaceElementsTensor(faces, tensor))
  \/ nf > 0 /\ dim = 1
  \/ NDLateError

(* with nf = 0 the constructor returns with the arrays as allocated; Bf and
   Gf hold the shape values the library computed, written as 1 and 2 *)
NDConstruct ==
  /\ pc = "newND"
  /\ IF NDError \/ nf = 0
     THEN /\ ub' = (NDError /\ NDLateError /\ dof_reorder
                     /\ FaceElementsTensor(faces, tensor)
                     /\ tensor[0] /\ basis \in {"GaussLobatto", "Positive"} /\ conforming)
          /\ pc' \in (IF ~NDError THEN {"builtND"}
                      ELSE IF ub' THEN {"error", "stopped"} ELSE {"error"})
          /\ scatter_indices1' = <<>> /\ scatter_indices2' = <<>>
          /\ scatter_indices_tan1' = <<>> /\ scatter_indices2_tan1' = <<>>
          /\ Bf' = <<>> /\ Gf' = <<>>
          /\ offsets_nor' \in Unwritten(ndofs + 1)
          /\ offsets_tan1' \in Unwritten(ndofs + 1)
          /\ gather_indices_nor' = <<>> /\ gather_indices_tan1' = <<>>
     ELSE \E tan0 \in (IF dim = 3 THEN Unwritten(dof * dof1d)
                       ELSE {Arr(dof * dof1d, Uninit)}) :
            \E sc \in {NDScatter(tan0)}, gn \in {NDGather(TRUE, tan0)},
               gt \in {NDGather(FALSE, tan0)} :
              /\ pc' \in (IF NDOutside THEN {"builtND", "stopped"} ELSE {"builtND"})
              /\ ub' = NDOutside
              /\ scatter_indices1' = sc.scatter_indices1
              /\ scatter_indices2' = sc.scatter_indices2
              /\ scatter_indices_tan1' = sc.scatter_indices_tan1
              /\ scatter_indices2_tan1' = sc.scatter_indices2_tan1
              /\ Bf' = Arr(dof1d * dof1d * nf * 2 * 3, 1)
              /\ Gf' = Arr(dof1d * dof1d * nf * 2 * 3, 2)
              /\ offsets_nor' = gn.offs
              /\ gather_indices_nor' = gn.gi
              /\ offsets_tan1' = gt.offs
              /\ gather_indices_tan1' = gt.gi
  /\ UNCHANGED <<faces, type, m, nf, elemDofs, gather_indices, fesVars, permVars,
                 erVars, x, y0, y, acc, matVars, parVars>>

(* the meshes of dimension 3 have at most one face *)
NDMeshes(nE, d) ==
  IF d < 3 THEN Meshes(nE, d)
  ELSE {<<>>} \cup {[f \in 0..0 |-> fc] :
                      fc \in BoundaryFaces(nE, d) \cup InteriorFaces(nE, d)}

InitND ==
  /\ pc = "newND"
  /\ dim \in 1..3
  /\ dof1d \in 1..MaxNDDof1d
  /\ ne \in 1..MaxNe
  /\ faces \in NDMeshes(ne, dim)
  /\ type \in {"Interior", "Boundary"}
  /\ m \in {"SingleValued", "DoubleValued"}
  /\ nf = NFbyType(faces, type)
  /\ dof = (IF nf > 0 THEN FaceDofs(dim, dof1d) ELSE 0)
  /\ elemDofs = Power(dof1d, dim)
  /\ ndofs = ne * elemDofs
  /\ elementMap = [k \in 0..(ne * elemDofs - 1) |-> k]
  /\ vdim = 1
  /\ byvdim = FALSE
  /\ FaceSpace
  /\ dof_map = <<>>
  /\ scatter_indices1 = <<>> /\ scatter_indices2 = <<>> /\ gather_indices = <<>>
  /\ NoNormal
  /\ offsets = <<>> /\ indices = <<>> /\ gatherMap = <<>>
  /\ face_id1 = 0 /\ face_id2 = 0 /\ orientation = 0 /\ perm = <<>> /\ faceMap1 = <<>>
  /\ NoIO

NextND == NDConstruct

SpecND == InitND /\ [][NextND]_vars

(***************************************************************************)
(* MultTranspose as MFEM_FORALL runs it: one task per global dof, the      *)
(* tasks interleaved in any order.  pc names the restriction whose         *)
(* MultTranspose runs; acc is the log of the accesses:                     *)
(* <<task, "r" or "w", array, position>>.                                  *)
(***************************************************************************)
MaxParSize == 4

ParKinds == {"ParER", "ParERUnsigned", "ParH1", "ParL2"}

StartTasks(n) == [i \in 0..(n - 1) |-> [c |-> 0, phase |-> "sum", tmp |-> 0]]

TaskPosShared(t, vd, nd, i, c) == GIdx(t, vd, nd, 0, c)

(* d_y(t?c:i, t?i:c) of task i *)
TaskPos(t, vd, nd, i, c) == GIdx(t, vd, nd, i, c)

(* no SparseMatrix yet *)
NoMat == I = <<>> /\ J = <<>> /\ Data = <<>> /\ nnz = 0

(* an ElementRestriction as its constructor leaves it *)
BuiltER ==
  /\ FesShape
  /\ vdim * ndofs <= MaxParSize
  /\ dof_reorder \in BOOLEAN
  /\ tensor = [e \in 0..(ne - 1) |-> TRUE]
  /\ dof_map = (IF dof_reorder /\ ne > 0 THEN ReversingMap(dof) ELSE <<>>)
  /\ \E r \in {ERConstruct(ne, dof, ndofs, elementMap, dof_reorder, dof_map)} :
       /\ offsets = r.offsets
       /\ indices = r.indices
       /\ gatherMap = r.gatherMap
  /\ acc = {}
  /\ ub = FALSE

(* a face restriction with at least one face as its constructor leaves it,
   built on a space that passes every check: an H1FaceRestriction (h1) or an
   L2FaceRestriction *)
BuiltFace(h1) ==
  /\ dim \in 1..MaxDim
  /\ dof1d \in (IF h1 THEN 2..MaxDof1d ELSE 1..MaxDof1d)
  /\ ne \in 1..MaxNe
  /\ elemDofs = Power(dof1d, dim)
  /\ vdim \in 1..MaxVdim
  /\ vdim * ne * elemDofs <= MaxParSize
  /\ byvdim \in (IF vdim > 1 THEN BOOLEAN ELSE {FALSE})
  /\ faces \in Meshes(ne, dim)
  /\ type \in {"Interior", "Boundary"}
  /\ m \in (IF h1 THEN {"SingleValued"} ELSE {"SingleValued", "DoubleValued"})
  /\ nf = NFbyType(faces, type)
  /\ nf > 0
  /\ dof = FaceDofs(dim, dof1d)
  /\ tensor = [e \in 0..(ne - 1) |-> TRUE]
  /\ basis = "GaussLobatto"
  /\ conforming = TRUE
  /\ dof_reorder = TRUE
  /\ dof_map = (IF h1 THEN ReversedMap(elemDofs) ELSE <<>>)
  /\ elementMap = (IF h1
                   THEN H1ElementMap(faces, ne, dim, dof1d, elemDofs, dof_map)
                   ELSE [k \in 0..(ne * elemDofs - 1) |-> k])
  /\ ndofs = ne * elemDofs
              - Cardinality({j \in DOMAIN elementMap : j >= elemDofs /\ elementMap[j] < elemDofs})
  /\ IF h1
     THEN \E r \in {H1Construct(faces, type, dof_reorder, dim, dof1d, nf, dof, elemDofs,
                                 ndofs, elementMap, dof_map, tensor, basis, conforming)} :
            /\ r.status = "built"
            /\ scatter_indices1 = r.scatter_indices
            /\ scatter_indices2 = <<>>
            /\ offsets = r.offsets
            /\ gather_indices = r.gather_indices
     ELSE \E r \in {L2Construct(faces, type, m, dof_reorder, dim, dof1d, nf, dof,
                                 elemDofs, ndofs, elementMap)} :
            /\ r.status = "built"
            /\ scatter_indices1 = r.scatter_indices1
            /\ scatter_indices2 = r.scatter_indices2
            /\ offsets = r.offsets
            /\ gather_indices = r.gather_indices
  /\ indices = <<>> /\ gatherMap = <<>>
  /\ NoNormal
  /\ face_id1 = 0 /\ face_id2 = 0 /\ orientation = 0 /\ perm = <<>> /\ faceMap1 = <<>>
  /\ acc = {}
  /\ ub = FALSE

(* the start of a call of ElementRestriction::MultTranspose or
   MultTransposeUnsigned *)
InitParER ==
  /\ BuiltER
  /\ pc \in {"ParER", "ParERUnsigned"}
  /\ x = [k \in 0..(LocalSize - 1) |-> Pow3(k)]
  /\ y0 = Arr(GlobalSize, 7)
  /\ y = y0
  /\ NoMat
  /\ tasks = StartTasks(ndofs)

(* the start of a call of MultTranspose of a face restriction *)
InitParFace ==
  /\ pc \in {"ParH1", "ParL2"}
  /\ BuiltFace(pc = "ParH1")
  /\ x \in GatherInputs((IF m = "DoubleValued" THEN 2 ELSE 1) * vdim * nf * dof)
  /\ y0 = Arr(vdim * ndofs, 7)
  /\ y = y0
  /\ NoMat
  /\ tasks = StartTasks(ndofs)

(* what task i reads to form dofValue of component c *)
ERSumReads(i, c) ==
  {<<i, "r", "offsets", i>>, <<i, "r", "offsets", i + 1>>}
    \cup {<<i, "r", "indices", j>> : j \in offsets[i]..(offsets[i + 1] - 1)}
    \cup {<<i, "r", "x", Idx3(dof, vdim, Decode(indices[j]) % dof, c,
                              Decode(indices[j]) \div dof)>> :
            j \in offsets[i]..(offsets[i + 1] - 1)}

FaceSumReads(i, c) ==
  {<<i, "r", "offsets", i>>, <<i, "r", "offsets", i + 1>>}
    \cup {<<i, "r", "gather_indices", j>> : j \in offsets[i]..(offsets[i + 1] - 1)}
    \cup {<<i, "r", "x", FaceGatherPos(gather_indices[j], dof, vdim, nf * dof, m, c)>> :
            j \in offsets[i]..(offsets[i + 1] - 1)}

(* task i of ElementRestriction::MultTranspose[Unsigned] forms dofValue of
   its next component and stores it *)
ParERStep(i) ==
  /\ pc \in {"ParER", "ParERUnsigned"}
  /\ tasks[i].c < vdim
  /\ LET c == tasks[i].c
         p == TaskPos(byvdim, vdim, ndofs, i, c)
         dofValue == BucketSum(offsets[i], offsets[i + 1], indices, x, dof, vdim, c,
                               pc = "ParER")
     IN /\ y' = [y EXCEPT ![p] = GatherStore(@, dofValue)]
        /\ acc' = acc \cup ERSumReads(i, c) \cup {<<i, "w", "y", p>>}
        /\ tasks' = [tasks EXCEPT ![i].c = c + 1]
  /\ UNCHANGED <<pc, x, y0, ub, faceVars, permVars, fesVars, normVars, erVars, matVars>>

(* d_y(..) += dofValue of a face restriction is a load and a store: task i
   forms dofValue and loads its output entry *)
ParFaceLoad(i) ==
  /\ pc \in {"ParH1", "ParL2"}
  /\ tasks[i].c < vdim
  /\ tasks[i].phase = "sum"
  /\ LET c == tasks[i].c
         p == TaskPos(byvdim, vdim, ndofs, i, c)
         b == FaceBucketSum(offsets[i], offsets[i + 1], gather_indices, x, dof, vdim,
                            nf * dof, m, c)
     IN /\ tasks' = [tasks EXCEPT ![i].phase = "store", ![i].tmp = FaceStore(y[p], b.v)]
        /\ acc' = acc \cup FaceSumReads(i, c) \cup {<<i, "r", "y", p>>}
        /\ ub' = (ub \/ b.ub)
  /\ UNCHANGED <<pc, x, y0, y, faceVars, permVars, fesVars, normVars, erVars, matVars>>

(* task i stores the sum into its output entry *)
ParFaceStore(i) ==
  /\ pc \in {"ParH1", "ParL2"}
  /\ tasks[i].phase = "store"
  /\ LET c == tasks[i].c
         p == TaskPos(byvdim, vdim, ndofs, i, c)
     IN /\ y' = [y EXCEPT ![p] = tasks[i].tmp]
        /\ acc' = acc \cup {<<i, "w", "y", p>>}
        /\ tasks' = [tasks EXCEPT ![i].phase = "sum", ![i].c = c + 1]
  /\ UNCHANGED <<pc, x, y0, ub, faceVars, permVars, fesVars, normVars, erVars, matVars>>

NextParMT ==
  \/ \E i \in DOMAIN tasks : ParERStep(i)
  \/ \E i \in DOMAIN tasks : ParFaceLoad(i)
  \/ \E i \in DOMAIN tasks : ParFaceStore(i)

SpecParMT == (InitParER \/ InitParFace) /\ [][NextParMT]_vars

(***************************************************************************)
(* Mult as MFEM_FORALL runs it: one task per local (element or face) entry, *)
(* the tasks interleaved in any order.  A task is a list of stores:        *)
(* "set" is d_y(..) = v, one step; "add" is d_y(..) += v, a load and a     *)
(* store.  tasks[i].c counts the stores task i has completed.              *)
(***************************************************************************)
MaxParTasks == 2

MultKinds == {"ParMult", "ParMultUnsigned", "ParH1Mult", "ParL2Mult", "ParNormalDMult"}

SetOp(p, v) == [kind |-> "set", pos |-> p, val |-> v]
AddOp(p, v) == [kind |-> "add", pos |-> p, val |-> v]
OutsideOp == [kind |-> "outside", pos |-> 0, val |-> 0]

(* task i of ElementRestriction::Mult, MultUnsigned: the loop over c *)
ERMultOps(i) ==
  [k \in 1..vdim |->
     SetOp(Idx3(dof, vdim, i % dof, k - 1, i \div dof),
           IF pc = "ParMult" THEN MultValue(gatherMap, x, byvdim, vdim, ndofs, i, k - 1)
           ELSE MultValueUnsigned(gatherMap, x, byvdim, vdim, ndofs, i, k - 1))]

(* task i of H1FaceRestriction::Mult and of the single-valued
   L2FaceRestriction::Mult *)
SingleValuedMultOps(i) ==
  [k \in 1..vdim |->
     SetOp(Idx3(dof, vdim, i % dof, k - 1, i \div dof),
           x[GIdx(byvdim, vdim, ndofs, scatter_indices1[i], k - 1)])]

(* task i of the double-valued L2FaceRestriction::Mult: the loop over c for
   side 1, then the loop over c for side 2 *)
DoubleValuedMultOps(i) ==
  [k \in 1..(2 * vdim) |->
     IF k <= vdim
     THEN SetOp(Idx4(dof, vdim, 2, i % dof, k - 1, 0, i \div dof),
                x[GIdx(byvdim, vdim, ndofs, scatter_indices1[i], k - 1)])
     ELSE SetOp(Idx4(dof, vdim, 2, i % dof, k - 1 - vdim, 1, i \div dof),
                Side2Value(scatter_indices2[i], x, byvdim, vdim, ndofs, k - 1 - vdim).v)]

(* Reshape(y, dof, vd, 2, nf, 2)(fdof, c, side, face, j) *)
Idx5(n0, n1, n2, n3, i0, i1, i2, i3, i4) == i0 + n0 * (i1 + n1 * (i2 + n2 * (i3 + n3 * i4)))

(* u_face(k, fdof, face, side) and dudn_face(k, fdof, face, side, j) *)
UFace(k, fdof, face, side) == Bf[Idx4(dof1d, dof, nf, k, fdof, face, side)]
DudnFace(k, fdof, face, side, j) == Gf[Idx5(dof1d, dof, nf, 2, k, fdof, face, side, j)]

(* the j-th of the three += of one component on one side *)
NormalDAdd(k, fdof, face, side, c, j, idx, idxt) ==
  IF j = 0
  THEN AddOp(Idx5(dof, vdim, 2, nf, fdof, c, side, face, 0),
             x[GIdx(byvdim, vdim, ndofs, idx, c)] * UFace(k, fdof, face, side))
  ELSE IF j = 1
  THEN AddOp(Idx5(dof, vdim, 2, nf, fdof, c, side, face, 1),
             x[GIdx(byvdim, vdim, ndofs, idx, c)] * DudnFace(k, fdof, face, side, 0))
  ELSE AddOp(Idx5(dof, vdim, 2, nf, fdof, c, side, face, 1),
             x[GIdx(byvdim, vdim, ndofs, idxt, c)] * DudnFace(k, fdof, face, side, 1))

(* task i of L2FaceNormalDRestriction::Mult, i < dof1d*dof*vd*nf; the index
   arrays have nf*dof*dof1d entries *)
NormalDMultOps(i) ==
  IF i \notin DOMAIN scatter_indices1 THEN [k \in 1..1 |-> OutsideOp]
  ELSE LET k1d == i % dof1d
           fdof == (i \div dof1d) % dof
           face == i \div (dof1d * dof)
           idx1 == scatter_indices1[i]
           idxt1 == scatter_indices_tan1[i]
           idx2 == scatter_indices2[i]
           idxt2 == scatter_indices2_tan1[i]
           per == IF idx2 = -1 THEN 2 ELSE 3
       IN [k \in 1..((3 + per) * vdim) |->
             IF k <= 3 * vdim
             THEN NormalDAdd(k1d, fdof, face, 0, (k - 1) \div 3, (k - 1) % 3, idx1, idxt1)
             ELSE LET q == k - 1 - 3 * vdim
                  IN IF idx2 = -1
                     THEN SetOp(Idx5(dof, vdim, 2, nf, fdof, q \div 2, 1, face, q % 2), 0)
                     ELSE NormalDAdd(k1d, fdof, face, 1, q \div 3, q % 3, idx2, idxt2)]

MultOps(i) ==
  CASE pc \in {"ParMult", "ParMultUnsigned"} -> ERMultOps(i)
    [] pc = "ParH1Mult" -> SingleValuedMultOps(i)
    [] pc = "ParL2Mult" -> IF m = "DoubleValued" THEN DoubleValuedMultOps(i)
                           ELSE SingleValuedMultOps(i)
    [] pc = "ParNormalDMult" -> NormalDMultOps(i)

NOps(i) == Cardinality(DOMAIN MultOps(i))

(* the start of a call of ElementRestriction::Mult or MultUnsigned *)
InitParMultER ==
  /\ BuiltER
  /\ pc \in {"ParMult", "ParMultUnsigned"}
  /\ ne * dof <= MaxParTasks
  /\ x = [k \in 0..(GlobalSize - 1) |-> Pow3(k)]
  /\ y0 = Arr(LocalSize, 7)
  /\ y = y0
  /\ NoMat
  /\ tasks = StartTasks(ne * dof)

(* the start of a call of Mult of a face restriction *)
InitParMultFace ==
  /\ pc \in {"ParH1Mult", "ParL2Mult"}
  /\ BuiltFace(pc = "ParH1Mult")
  /\ nf * dof <= MaxParTasks
  /\ x \in ScatterInputs(vdim * ndofs)
  /\ y0 = Arr((IF m = "DoubleValued" THEN 2 ELSE 1) * vdim * nf * dof, 7)
  /\ y = y0
  /\ NoMat
  /\ tasks = StartTasks(nf * dof)

(* a double-valued L2FaceNormalDRestriction after "y = 0.0" of Mult; its
   index arrays and its weights Bf, Gf are what the constructor left: global
   dofs in the scatter arrays, -1 in scatter_indices2 on boundary faces *)
InitParNormalD ==
  /\ pc = "ParNormalDMult"
  /\ dim \in 1..MaxDim
  /\ dof1d \in 1..MaxDof1d
  /\ ne \in 1..MaxNe
  /\ elemDofs = Power(dof1d, dim)
  /\ dof = FaceDofs(dim, dof1d)
  /\ vdim \in 1..MaxVdim
  /\ nf \in 1..MaxNF
  /\ dof1d * dof * vdim * nf <= MaxParTasks
  /\ byvdim \in (IF vdim > 1 THEN BOOLEAN ELSE {FALSE})
  /\ ndofs = ne * elemDofs
  /\ elementMap = [k \in 0..(ne * elemDofs - 1) |-> k]
  /\ dof_reorder = TRUE
  /\ dof_map = <<>>
  /\ tensor = [e \in 0..(ne - 1) |-> TRUE]
  /\ basis = "GaussLobatto"
  /\ conforming = TRUE
  /\ faces = <<>>
  /\ type \in {"Interior", "Boundary"}
  /\ m = "DoubleValued"
  /\ scatter_indices1 = [i \in 0..(nf * dof * dof1d - 1) |-> i % ndofs]
  /\ scatter_indices_tan1 = [i \in 0..(nf * dof * dof1d - 1) |-> (i + 1) % ndofs]
  /\ scatter_indices2 \in {[i \in 0..(nf * dof * dof1d - 1) |-> -1],
                           [i \in 0..(nf * dof * dof1d - 1) |-> ndofs - 1 - (i % ndofs)]}
  /\ scatter_indices2_tan1 = [i \in 0..(nf * dof * dof1d - 1) |-> i % ndofs]
  /\ Bf = Arr(dof1d * dof1d * nf * 2 * 3, 1)
  /\ Gf = Arr(dof1d * dof1d * nf * 2 * 3, 2)
  /\ offsets_nor = <<>> /\ gather_indices_nor = <<>>
  /\ offsets_tan1 = <<>> /\ gather_indices_tan1 = <<>>
  /\ offsets = <<>> /\ gather_indices = <<>>
  /\ indices = <<>> /\ gatherMap = <<>>
  /\ face_id1 = 0 /\ face_id2 = 0 /\ orientation = 0 /\ perm = <<>> /\ faceMap1 = <<>>
  /\ x = [k \in 0..(vdim * ndofs - 1) |-> Pow3(k)]
  /\ y0 = Arr(dof * vdim * 2 * nf * 2, 7)
  /\ y = Arr(dof * vdim * 2 * nf * 2, 0)
  /\ acc = {}
  /\ ub = FALSE
  /\ I = <<>> /\ J = <<>> /\ Data = <<>> /\ nnz = 0
  /\ tasks = StartTasks(dof1d * dof * vdim * nf)

(* task i performs its next store d_y(..) = v *)
ParMultSet(i) ==
  /\ pc \in MultKinds
  /\ tasks[i].c < NOps(i)
  /\ \E op \in {MultOps(i)[tasks[i].c + 1]} :
       /\ op.kind = "set"
       /\ y' = [y EXCEPT ![op.pos] = op.val]
       /\ acc' = acc \cup {<<i, "w", "y", op.pos>>}
       /\ tasks' = [tasks EXCEPT ![i].c = @ + 1]
  /\ UNCHANGED <<pc, x, y0, ub, faceVars, permVars, fesVars, normVars, erVars, matVars>>

(* task i loads the entry its next d_y(..) += v updates *)
ParMultLoad(i) ==
  /\ pc \in MultKinds
  /\ tasks[i].c < NOps(i)
  /\ tasks[i].phase = "sum"
  /\ \E op \in {MultOps(i)[tasks[i].c + 1]} :
       /\ op.kind = "add"
       /\ tasks' = [tasks EXCEPT ![i].phase = "store", ![i].tmp = y[op.pos] + op.val]
       /\ acc' = acc \cup {<<i, "r", "y", op.pos>>}
  /\ UNCHANGED <<pc, x, y0, y, ub, faceVars, permVars, fesVars, normVars, erVars, matVars>>

(* task i stores the sum *)
ParMultStore(i) ==
  /\ pc \in MultKinds
  /\ tasks[i].phase = "store"
  /\ \E op \in {MultOps(i)[tasks[i].c + 1]} :
       /\ y' = [y EXCEPT ![op.pos] = tasks[i].tmp]
       /\ acc' = acc \cup {<<i, "w", "y", op.pos>>}
       /\ tasks' = [tasks EXCEPT ![i].phase = "sum", ![i].c = @ + 1]
  /\ UNCHANGED <<pc, x, y0, ub, faceVars, permVars, fesVars, normVars, erVars, matVars>>

(* task i of L2FaceNormalDRestriction::Mult, i beyond the index arrays,
   reads d_indices1[i] outside scatter_indices1 *)
ParMultOutside(i) ==
  /\ pc \in MultKinds
  /\ tasks[i].c < NOps(i)
  /\ \E op \in {MultOps(i)[tasks[i].c + 1]} :
       /\ op.kind = "outside"
       /\ ub' = TRUE
       /\ acc' = acc \cup {<<i, "r", "scatter_indices1", i>>}
       /\ tasks' = [tasks EXCEPT ![i].c = @ + 1]
  /\ UNCHANGED <<pc, x, y0, y, faceVars, permVars, fesVars, normVars, erVars, matVars>>

NextParMult ==
  \/ \E i \in DOMAIN tasks : ParMultSet(i)
  \/ \E i \in DOMAIN tasks : ParMultLoad(i)
  \/ \E i \in DOMAIN tasks : ParMultStore(i)
  \/ \E i \in DOMAIN tasks : ParMultOutside(i)

SpecParMult == (InitParMultER \/ InitParMultFace \/ InitParNormalD) /\ [][NextParMult]_vars

(***************************************************************************)
(* ElementRestriction::FillJAndData as MFEM_FORALL(e, ne) runs it: one     *)
(* task per element, interleaved in any order, over an unsigned gather map *)
(* and the row pointers FillI left.  tasks[e].c is the iteration (i, j)    *)
(* task e is at; acc logs <<e, "ret", row, index, iteration>> for every    *)
(* index GetAndIncrementNnzIndex returned and <<e, "w", "J", index,        *)
(* iteration>> for every store.                                            *)
(***************************************************************************)
GetWithoutIncrement(rp, i_L) == [ind |-> rp[i_L], I |-> rp]

(* int ind = AtomicAdd(I[i_L], 1); return ind; *)
GetAndIncrementNnzIndex(rp, i_L) == [ind |-> rp[i_L], I |-> [rp EXCEPT ![i_L] = @ + 1]]

(* iteration (e, i, j) of the filling loop: whether it adds an entry, and
   the row, the column and the value of the entry *)
FillJEntry(e, i, j) ==
  LET i_L == gatherMap[e * dof + i]
      j_L == gatherMap[e * dof + j]
      i_nbElts == offsets[i_L + 1] - offsets[i_L]
      j_nbElts == offsets[j_L + 1] - offsets[j_L]
      i_elts == BucketElts(offsets, indices, dof, i_L)
      i_B == BucketLoc(offsets, indices, dof, i_L)
      j_elts == BucketElts(offsets, indices, dof, j_L)
      j_B == BucketLoc(offsets, indices, dof, j_L)
  IN IF i_nbElts = 1 \/ j_nbElts = 1
     THEN [adds |-> TRUE, row |-> i_L, col |-> j_L, val |-> MatEa(x, dof, j, i, e)]
     ELSE IF e = GetMinElt(i_elts, i_nbElts, j_elts, j_nbElts).min
     THEN [adds |-> TRUE, row |-> i_L, col |-> j_L,
           val |-> AssembledVal(0, x, dof, i_elts, i_B, j_elts, j_B, j_nbElts)]
     ELSE [adds |-> FALSE, row |-> i_L, col |-> j_L, val |-> 0]

TaskEntry(e) == FillJEntry(e, tasks[e].c \div dof, tasks[e].c % dof)

(* a built ElementRestriction with an unsigned gather map, after FillI and
   the allocation of J and Data by FillSparseMatrix *)
InitParFill ==
  /\ BuiltER
  /\ ne > 0
  /\ \A k \in DOMAIN gatherMap : gatherMap[k] >= 0
  /\ pc = "ParFillJ"
  /\ \E r \in {ERFillI(ne, ndofs, dof, vdim, offsets, indices, gatherMap)} :
       /\ ~r.ub
       /\ I = r.I
       /\ nnz = r.I[vdim * ndofs]
  /\ J = Arr(nnz, Uninit)
  /\ Data = Arr(nnz, Uninit)
  /\ x = [k \in 0..(dof * dof * ne - 1) |-> Pow3(k)]
  /\ y0 = <<>>
  /\ y = <<>>
  /\ tasks = StartTasks(ne)

(* iteration (i, j) of task e adds nothing: e is not the minimum element *)
ParFillSkip(e) ==
  /\ pc = "ParFillJ"
  /\ tasks[e].c < dof * dof
  /\ tasks[e].phase = "sum"
  /\ ~TaskEntry(e).adds
  /\ tasks' = [tasks EXCEPT ![e].c = @ + 1]
  /\ UNCHANGED <<pc, ioVars, matVars, faceVars, permVars, fesVars, normVars, erVars>>

(* const int nnz = GetAndIncrementNnzIndex(i_L, I) *)
ParFillGet(e) ==
  /\ pc = "ParFillJ"
  /\ tasks[e].c < dof * dof
  /\ tasks[e].phase = "sum"
  /\ \E en \in {TaskEntry(e)} :
       /\ en.adds
       /\ \E r \in {GetAndIncrementNnzIndex(I, en.row)} :
            /\ I' = r.I
            /\ tasks' = [tasks EXCEPT ![e].phase = "store", ![e].tmp = r.ind]
            /\ acc' = acc \cup {<<e, "ret", en.row, r.ind, tasks[e].c>>}
  /\ UNCHANGED <<pc, x, y0, y, ub, J, Data, nnz, faceVars, permVars, fesVars, normVars, erVars>>

(* J[nnz] = j_L; Data[nnz] = val *)
ParFillStore(e) ==
  /\ pc = "ParFillJ"
  /\ tasks[e].phase = "store"
  /\ \E en \in {TaskEntry(e)} :
       IF tasks[e].tmp \in DOMAIN J
       THEN /\ J' = [J EXCEPT ![tasks[e].tmp] = en.col]
            /\ Data' = [Data EXCEPT ![tasks[e].tmp] = en.val]
            /\ ub' = ub
       ELSE /\ ub' = TRUE
            /\ UNCHANGED <<J, Data>>
  /\ acc' = acc \cup {<<e, "w", "J", tasks[e].tmp, tasks[e].c>>}
  /\ tasks' = [tasks EXCEPT ![e].phase = "sum", ![e].c = @ + 1]
  /\ UNCHANGED <<pc, x, y0, y, I, nnz, faceVars, permVars, fesVars, normVars, erVars>>

(* after the loop: the sequential shift of the entries of I *)
ParFillShift ==
  /\ pc = "ParFillJ"
  /\ \A e \in DOMAIN tasks : tasks[e].c = dof * dof
  /\ I' = ShiftI(0, vdim * ndofs, I)
  /\ pc' = "ParFillJDone"
  /\ UNCHANGED <<ioVars, J, Data, nnz, faceVars, permVars, fesVars, normVars, parVars, erVars>>

NextParFill ==
  \/ \E e \in DOMAIN tasks : ParFillSkip(e)
  \/ \E e \in DOMAIN tasks : ParFillGet(e)
  \/ \E e \in DOMAIN tasks : ParFillStore(e)
  \/ ParFillShift

SpecParFill == InitParFill /\ [][NextParFill]_vars

(***************************************************************************)
(* L2FaceRestriction::AddFaceMatricesToElementMatrices as MFEM_FORALL(f,   *)
(* nf) runs it: one task per face, interleaved in any order; x is          *)
(* fea_data, y is ea_data.  tasks[f].c counts the AtomicAdd calls task f   *)
(* has made.                                                               *)
(***************************************************************************)
AtomicAddLast(old, v) == v

(* AtomicAdd(mat_ea(..), v): the new value of the entry *)
AtomicAdd(old, v) == old + v

(* the element a face slot entry belongs to and its slot in the element *)
SlotElement(idx) == CDiv(idx, elemDofs)
SlotLocal(idx) == CMod(idx, elemDofs)

(* the (i, j) AtomicAdd of side s of face f: the loop over j, inside it the
   loop over i *)
AddFaceOp(xv, si, f, s, i, j) ==
  [pos |-> Idx3(elemDofs, elemDofs, SlotLocal(si[f * dof + i]), SlotLocal(si[f * dof + j]),
                SlotElement(si[f * dof])),
   val |-> IF m = "DoubleValued" THEN xv[Idx4(dof, dof, 2, i, j, s, f)]
           ELSE xv[Idx3(dof, dof, i, j, f)]]

(* the AtomicAdd calls of task f in program order: side 1, then side 2 when
   the mode is double-valued and e2 < NE *)
AddFaceOps(xv, f) ==
  LET two == m = "DoubleValued" /\ SlotElement(scatter_indices2[f * dof]) < ne
  IN [k \in 1..((IF two THEN 2 ELSE 1) * dof * dof) |->
        IF k <= dof * dof
        THEN AddFaceOp(xv, scatter_indices1, f, 0, (k - 1) % dof, (k - 1) \div dof)
        ELSE AddFaceOp(xv, scatter_indices2, f, 1, (k - 1 - dof * dof) % dof,
                       (k - 1 - dof * dof) \div dof)]

(* two elements glued along two faces (a periodic mesh) *)
SharedPairMeshes(d) ==
  {fcs \in [0..1 -> InteriorFaces(2, d)] : Uses(fcs[0]) \cap Uses(fcs[1]) = {}}

(* an L2FaceRestriction over the interior faces of a mesh of two elements,
   at the start of the call *)
InitParAddFace ==
  /\ pc = "ParAddFace"
  /\ dim \in 1..MaxDim
  /\ dof1d \in 1..2
  /\ ne = 2
  /\ elemDofs = Power(dof1d, dim)
  /\ vdim = 1
  /\ byvdim = FALSE
  /\ faces \in {fcs \in Meshes(ne, dim) \cup SharedPairMeshes(dim) :
                  \A f \in DOMAIN fcs : fcs[f].e2 >= 0}
  /\ type = "Interior"
  /\ m \in {"SingleValued", "DoubleValued"}
  /\ nf = NFbyType(faces, type)
  /\ nf > 0
  /\ dof = FaceDofs(dim, dof1d)
  /\ tensor = [e \in 0..(ne - 1) |-> TRUE]
  /\ basis = "GaussLobatto"
  /\ conforming = TRUE
  /\ dof_reorder = TRUE
  /\ dof_map = <<>>
  /\ elementMap = [k \in 0..(ne * elemDofs - 1) |-> k]
  /\ ndofs = ne * elemDofs
  /\ \E r \in {L2Construct(faces, type, m, dof_reorder, dim, dof1d, nf, dof,
                            elemDofs, ndofs, elementMap)} :
       /\ r.status = "built"
       /\ scatter_indices1 = r.scatter_indices1
       /\ scatter_indices2 = r.scatter_indices2
       /\ offsets = r.offsets
       /\ gather_indices = r.gather_indices
  /\ indices = <<>> /\ gatherMap = <<>>
  /\ NoNormal
  /\ face_id1 = 0 /\ face_id2 = 0 /\ orientation = 0 /\ perm = <<>> /\ faceMap1 = <<>>
  /\ x = [k \in 0..((IF m = "DoubleValued" THEN 2 ELSE 1) * dof * dof * nf - 1) |-> Pow3(k)]
  /\ y0 = Arr(elemDofs * elemDofs * ne, 7)
  /\ y = y0
  /\ acc = {}
  /\ ub = FALSE
  /\ NoMat
  /\ tasks = StartTasks(nf)

(* task f makes its next AtomicAdd *)
ParAddFaceStep(f) ==
  /\ pc = "ParAddFace"
  /\ tasks[f].c < Cardinality(DOMAIN AddFaceOps(x, f))
  /\ \E op \in {AddFaceOps(x, f)[tasks[f].c + 1]} :
       /\ IF op.pos \in DOMAIN y
          THEN y' = [y EXCEPT ![op.pos] = AtomicAdd(@, op.val)] /\ ub' = ub
          ELSE y' = y /\ ub' = TRUE
       /\ acc' = acc \cup {<<f, "rmw", "ea_data", op.pos>>}
  /\ tasks' = [tasks EXCEPT ![f].c = @ + 1]
  /\ UNCHANGED <<pc, x, y0, matVars, faceVars, permVars, fesVars, normVars, erVars>>

NextParAddFace == \E f \in DOMAIN tasks : ParAddFaceStep(f)

SpecParAddFace == InitParAddFace /\ [][NextParAddFace]_vars

(***************************************************************************)
(* L2FaceRestriction::FillI, FillJAndData and                              *)
(* AddFaceMatricesToElementMatrices, each as one call; acc logs            *)
(* <<"row", iE>> for every row index handed to AddNnz and <<"col", jE>>    *)
(* for every column index stored in J.                                     *)
(***************************************************************************)
(* int val = AtomicAdd(I[iE], dofs); return val;  [val, I, ub]: an iE
   outside I reads and writes outside the array *)
AddNnz(rp, iE, dofs) ==
  IF iE \in DOMAIN rp
  THEN [val |-> rp[iE], I |-> [rp EXCEPT ![iE] = @ + dofs], ub |-> FALSE]
  ELSE [val |-> Uninit, I |-> rp, ub |-> TRUE]

(* d_indices2[k]; scatter_indices2 has no entry in single-valued mode *)
ReadIndices2(k) ==
  IF k \in DOMAIN scatter_indices2 THEN [v |-> scatter_indices2[k], ub |-> FALSE]
  ELSE [v |-> Uninit, ub |-> TRUE]

(* L2ElementRestriction::FillI: I[dof] = elem_dofs for dof < ne*elem_dofs*vd;
   the last entry of I is not written *)
ElemFillI == [i \in 0..(vdim * ndofs) |-> IF i < vdim * ndofs THEN elemDofs ELSE 0]

(* iteration fdof of L2FaceRestriction::FillI; st = [I, acc, ub] *)
RECURSIVE L2FillILoop(_, _)
L2FillILoop(fdof, st) ==
  IF fdof >= nf * dof THEN st
  ELSE LET iE1 == scatter_indices1[fdof]
           r2 == ReadIndices2(fdof)
           a1 == AddNnz(st.I, iE1, dof)
           a2 == AddNnz(a1.I, r2.v, dof)
       IN L2FillILoop(fdof + 1,
            IF r2.ub
            THEN [I |-> a1.I, acc |-> st.acc \cup {<<"row", iE1>>},
                  ub |-> TRUE]
            ELSE [I |-> a2.I, acc |-> st.acc \cup {<<"row", iE1>>, <<"row", r2.v>>},
                  ub |-> st.ub \/ a1.ub \/ a2.ub])

(* the sum of the entries of I made on the host between the two passes *)
HostPrefixSum(rp) == PrefixSum(0, vdim * ndofs, [I |-> rp, sum |-> 0])

(* L2ElementRestriction::FillJAndData with an element matrix of ones, on
   the row starts rp and arrays of n entries: row iE stores its elem_dofs
   columns e*elem_dofs+j at AddNnz(iE, I, elem_dofs)+j; [I, J, Data] *)
ElemFillJAndData(rp, n) ==
  LET rows == 0..(ne * elemDofs * vdim - 1)
      At(q) == {h \in rows \X (0..(elemDofs - 1)) : rp[h[1]] + h[2] = q}
  IN [I |-> [r \in DOMAIN rp |-> IF r \in rows THEN rp[r] + elemDofs ELSE rp[r]],
      J |-> [q \in 0..(n - 1) |->
               IF At(q) = {} THEN Uninit
               ELSE CHOOSE c \in {(h[1] \div elemDofs) * elemDofs + h[2] : h \in At(q)} : TRUE],
      Data |-> [q \in 0..(n - 1) |-> IF At(q) = {} THEN Uninit ELSE 1]]

(* J[offset+jF] = jE; Data[offset+jF] = v; an offset that was read outside I
   or a position outside J is a write outside the arrays *)
StoreEntry(st, offset, jF, jE, v) ==
  IF offset # Uninit /\ (offset + jF) \in DOMAIN st.J
  THEN [st EXCEPT !.J[offset + jF] = jE, !.Data[offset + jF] = v,
                  !.acc = @ \cup {<<"col", jE>>}]
  ELSE [st EXCEPT !.ub = TRUE, !.acc = @ \cup {<<"col", jE>>}]

(* the loop over jF of iteration fdof; st = [I, J, Data, acc, ub] *)
RECURSIVE L2FillJInner(_, _, _, _, _, _, _)
L2FillJInner(jF, f, iF, offset1, offset2, xv, st) ==
  IF jF >= dof THEN st
  ELSE LET jE1 == scatter_indices1[f * dof + jF]
           r2 == ReadIndices2(f * dof + jF)
           s1 == StoreEntry(st, offset2, jF, jE1, xv[Idx4(dof, dof, 2, jF, iF, 0, f)])
           s2 == IF r2.ub THEN [s1 EXCEPT !.ub = TRUE]
                 ELSE StoreEntry(s1, offset1, jF, r2.v, xv[Idx4(dof, dof, 2, jF, iF, 1, f)])
       IN L2FillJInner(jF + 1, f, iF, offset1, offset2, xv, s2)

RECURSIVE L2FillJLoop(_, _, _)
L2FillJLoop(fdof, xv, st) ==
  IF fdof >= nf * dof THEN st
  ELSE LET f == fdof \div dof
           iF == fdof % dof
           iE1 == scatter_indices1[f * dof + iF]
           r2 == ReadIndices2(f * dof + iF)
           a1 == AddNnz(st.I, iE1, dof)
           a2 == IF r2.ub THEN [val |-> Uninit, I |-> a1.I, ub |-> TRUE]
                 ELSE AddNnz(a1.I, r2.v, dof)
       IN L2FillJLoop(fdof + 1, xv,
            L2FillJInner(0, f, iF, a1.val, a2.val, xv,
              [st EXCEPT !.I = a2.I,
                         !.acc = @ \cup {<<"row", iE1>>}
                                   \cup (IF r2.ub THEN {} ELSE {<<"row", r2.v>>}),
                         !.ub = @ \/ a1.ub \/ a2.ub]))

(* the sequential form of the loop over the faces; st = [y, ub] *)
RECURSIVE AddFaceLoop(_, _, _, _)
AddFaceLoop(f, k, xv, st) ==
  IF f >= nf THEN st
  ELSE IF k > Cardinality(DOMAIN AddFaceOps(xv, f)) THEN AddFaceLoop(f + 1, 1, xv, st)
  ELSE LET op == AddFaceOps(xv, f)[k]
       IN AddFaceLoop(f, k + 1, xv,
            IF op.pos \in DOMAIN st.y
            THEN [st EXCEPT !.y[op.pos] = AtomicAdd(@, op.val)]
            ELSE [st EXCEPT !.ub = TRUE])

IsL2 == elemDofs > 0 /\ pc \notin {"newH1", "builtH1"}

(* L2FaceRestriction::FillI on the I that L2ElementRestriction::FillI left *)
L2FillI ==
  /\ pc = "built"
  /\ IsL2
  /\ \E r \in {L2FillILoop(0, [I |-> ElemFillI, acc |-> {}, ub |-> FALSE])} :
       /\ I' = r.I
       /\ acc' = r.acc
       /\ ub' = r.ub
       /\ pc' \in (IF r.ub THEN {"L2FillI", "stopped"} ELSE {"L2FillI"})
  /\ UNCHANGED <<x, y0, y, J, Data, nnz, faceVars, permVars, fesVars, normVars, parVars, erVars>>

(* L2FaceRestriction::FillJAndData after the host sum of I and
   L2ElementRestriction::FillJAndData; x is the face matrices *)
L2FillJAndData ==
  /\ pc = "L2FillI"
  /\ \E rp \in {HostPrefixSum(I)} :
       \E el \in {ElemFillJAndData(rp, rp[vdim * ndofs])} :
         /\ nnz' = rp[vdim * ndofs]
         /\ x' = [k \in 0..(dof * dof * 2 * nf - 1) |-> k + 1]
         /\ \E r \in {L2FillJLoop(0, [k \in 0..(dof * dof * 2 * nf - 1) |-> k + 1],
                                 [I |-> el.I, J |-> el.J, Data |-> el.Data,
                                      acc |-> {}, ub |-> FALSE])} :
              /\ I' = r.I
              /\ J' = r.J
              /\ Data' = r.Data
              /\ acc' = r.acc
              /\ ub' = (ub \/ r.ub)
              /\ pc' \in (IF r.ub THEN {"L2FillJAndData", "stopped"} ELSE {"L2FillJAndData"})
  /\ UNCHANGED <<y0, y, faceVars, permVars, fesVars, normVars, parVars, erVars>>

(* AddFaceMatricesToElementMatrices: x is fea_data, y is ea_data *)
L2AddFaceMatrices ==
  /\ pc = "built"
  /\ IsL2
  /\ \E xv \in ScatterInputs((IF m = "DoubleValued" THEN 2 ELSE 1) * dof * dof * nf) :
       \E r \in {AddFaceLoop(0, 1, xv, [y |-> Arr(elemDofs * elemDofs * ne, 7), ub |-> FALSE])} :
         /\ x' = xv
         /\ y0' = Arr(elemDofs * elemDofs * ne, 7)
         /\ y' = r.y
         /\ ub' = r.ub
         /\ pc' \in (IF r.ub THEN {"L2AddFaceMatrices", "stopped"} ELSE {"L2AddFaceMatrices"})
  /\ acc' = {}
  /\ UNCHANGED <<matVars, faceVars, permVars, fesVars, normVars, parVars, erVars>>

(***************************************************************************)
(* Any sequence of calls on a constructed restriction: after a call has    *)
(* returned the caller drops its vectors and matrix and the object is used *)
(* again.                                                                  *)
(***************************************************************************)
ReadCleared(member) == [i \in DOMAIN member |-> 0]

(* Array<int>::Read(): a member as the const member functions access it *)
Read(member) == member

Returned == {"Mult", "MultUnsigned", "MultTranspose", "MultTransposeUnsigned",
             "RoundTripUnsigned", "BooleanMask", "FillI", "FillJAndData",
             "L2Mult", "L2MultTranspose", "L2FillI", "L2FillJAndData",
             "L2AddFaceMatrices", "H1Mult", "H1MultTranspose"}

Return ==
  /\ pc \in Returned
  /\ pc' = (IF pc \in {"H1Mult", "H1MultTranspose"} THEN "builtH1" ELSE "built")
  /\ offsets' = Read(offsets)
  /\ indices' = Read(indices)
  /\ gatherMap' = Read(gatherMap)
  /\ scatter_indices1' = Read(scatter_indices1)
  /\ scatter_indices2' = Read(scatter_indices2)
  /\ gather_indices' = Read(gather_indices)
  /\ x' = <<>> /\ y0' = <<>> /\ y' = <<>> /\ acc' = {} /\ ub' = FALSE
  /\ I' = <<>> /\ J' = <<>> /\ Data' = <<>> /\ nnz' = 0
  /\ UNCHANGED <<faces, type, m, nf, elemDofs, permVars, fesVars, normVars, parVars>>

NextCalls ==
  \/ (elemDofs = 0 /\ Next)
  \/ (elemDofs > 0 /\ NextFace)
  \/ L2FillI
  \/ L2FillJAndData
  \/ L2AddFaceMatrices
  \/ Return

(* scalar spaces: an ElementRestriction before construction, and the face
   restrictions before construction on the spaces every check accepts *)
InitCalls ==
  /\ vdim = 1
  /\ \/ Init
     \/ InitFace /\ FacePre
     \/ InitH1Face /\ FacePre

SpecCalls == InitCalls /\ [][NextCalls]_vars

(***************************************************************************)
(* Vocabulary of the properties.                                           *)
(***************************************************************************)
Built == pc = "built"

Slots == 0..(ne * dof - 1)

Dofs == 0..(ndofs - 1)

Sign(s) == IF s >= 0 THEN 1 ELSE -1

(* the positions of indices that make up the bucket of global dof g *)
Bucket(g) == {j \in Slots : offsets[g] <= j /\ j < offsets[g + 1]}

(* the element-table entry the slot lid is built from, and its dof_map entry *)
SlotDid(lid) == IF dof_reorder THEN Decode(dof_map[lid % dof]) ELSE lid % dof

SlotTable(lid) == elementMap[dof * (lid \div dof) + SlotDid(lid)]

SlotMapSign(lid) == IF dof_reorder THEN Sign(dof_map[lid % dof]) ELSE 1

(* C1: after construction offsets[0] = 0, offsets is non-decreasing,
   offsets[ndofs] = ne*dof, and every local slot, decoded, is at exactly one
   position of indices, which lies in exactly one bucket. *)
C1_OffsetsInvariant ==
  Built =>
    /\ DOMAIN offsets = 0..ndofs
    /\ DOMAIN indices = Slots
    /\ offsets[0] = 0
    /\ \A i \in Dofs : offsets[i] <= offsets[i + 1]
    /\ offsets[ndofs] = ne * dof
    /\ \A lid \in Slots :
         /\ Cardinality({j \in Slots : Decode(indices[j]) = lid}) = 1
         /\ Cardinality({g \in Dofs : \E j \in Bucket(g) : Decode(indices[j]) = lid}) = 1

(* a built restriction with a shared dof, an untouched dof and a negated slot *)
C1_Witness ==
  /\ Built
  /\ ne = 2
  /\ \E g \in Dofs : offsets[g + 1] - offsets[g] >= 2
  /\ \E g \in Dofs : offsets[g + 1] = offsets[g]
  /\ \E j \in Slots : indices[j] < 0

(* C2: indices/offsets is the inverse of gatherMap: slot lid is in bucket g
   iff gatherMap[lid] decodes to g, and the indices entry carries the sign
   of the gatherMap entry, which is the product of the element-table sign and
   the dof_map sign. *)
C2_GatherInverse ==
  Built =>
    \A lid \in Slots :
      /\ Decode(gatherMap[lid]) = Decode(SlotTable(lid))
      /\ Sign(gatherMap[lid]) = Sign(SlotTable(lid)) * SlotMapSign(lid)
      /\ \A g \in Dofs :
           (\E j \in Bucket(g) : Decode(indices[j]) = lid) <=> (Decode(gatherMap[lid]) = g)
      /\ \A j \in Slots :
           Decode(indices[j]) = lid => Sign(indices[j]) = Sign(gatherMap[lid])

(* lexicographic ordering with a negated dof_map entry over a negated table entry *)
C2_Witness ==
  /\ Built
  /\ dof_reorder
  /\ dof = 2
  /\ dof_map[0] = -1 - 1
  /\ \E lid \in Slots : lid % dof = 0 /\ SlotTable(lid) < 0 /\ gatherMap[lid] >= 0
  /\ \E lid \in Slots : gatherMap[lid] < 0

Comps == 0..(vdim - 1)

(* position of (dof g, component c) in a global vector, of (slot lid, component
   c) in a local vector *)
GPos(g, c) == IF byvdim THEN c + vdim * g ELSE g + ndofs * c

LPos(lid, c) == (lid % dof) + dof * (c + vdim * (lid \div dof))

RECURSIVE SumOver(_, _)
SumOver(S, f) ==
  IF S = {} THEN 0
  ELSE LET a == CHOOSE b \in S : TRUE IN f[a] + SumOver(S \ {a}, f)

(* sum over the entries of bucket g of sign * v[slot, c] *)
BucketTotal(g, c, v, signed) ==
  SumOver(Bucket(g),
          [j \in Bucket(g) |->
             (IF signed THEN Sign(indices[j]) ELSE 1) * v[LPos(Decode(indices[j]), c)]])

(* C3: MultTranspose sets global[g,c] to the sum over the slots of bucket g of
   sign*local[slot,c], whatever global held before, 0 for an empty bucket, in
   both layouts. *)
C3_GatherTranspose ==
  pc = "MultTranspose" =>
    /\ DOMAIN y = 0..(GlobalSize - 1)
    /\ \A g \in Dofs, c \in Comps : y[GPos(g, c)] = BucketTotal(g, c, x, TRUE)
    /\ \A g \in Dofs, c \in Comps : Bucket(g) = {} => y[GPos(g, c)] = 0

(* byVDIM layout, two components, an output vector that held 7s, a bucket
   with a negated and a plain slot, and an empty bucket *)
C3_Witness ==
  /\ pc = "MultTranspose"
  /\ byvdim /\ vdim = 2
  /\ \E p \in DOMAIN y0 : y0[p] = 7
  /\ \E p \in DOMAIN x : x[p] > 1
  /\ \E g \in Dofs : \E j, k \in Bucket(g) : indices[j] < 0 /\ indices[k] >= 0
  /\ \E g \in Dofs : Bucket(g) = {}

(* C4: Mult writes local[d,c,e] = sign(e,d) * global[gid(e,d),c], MultUnsigned
   the same without the sign; nothing of the old local vector remains. *)
C4_Scatter ==
  /\ pc = "Mult" =>
       /\ DOMAIN y = 0..(LocalSize - 1)
       /\ \A lid \in Slots, c \in Comps :
            y[LPos(lid, c)] = Sign(gatherMap[lid]) * x[GPos(Decode(gatherMap[lid]), c)]
  /\ pc = "MultUnsigned" =>
       /\ DOMAIN y = 0..(LocalSize - 1)
       /\ \A lid \in Slots, c \in Comps :
            y[LPos(lid, c)] = x[GPos(Decode(gatherMap[lid]), c)]

(* a signed scatter of a non-constant vector into a vector that held 7s *)
C4_Witness ==
  /\ pc = "Mult"
  /\ vdim = 2 /\ ~byvdim
  /\ \E p \in DOMAIN y0 : y0[p] = 7
  /\ \E p \in DOMAIN x : x[p] > 1
  /\ \E lid \in Slots : gatherMap[lid] < 0
  /\ \E lid \in Slots : gatherMap[lid] > 0

(* C5: MultTransposeUnsigned(MultUnsigned(x)) is x scaled entrywise by the
   multiplicity offsets[g+1] - offsets[g], the number of slots mapping to g. *)
C5_RoundTripUnsigned ==
  pc = "RoundTripUnsigned" =>
    \A g \in Dofs, c \in Comps :
      /\ offsets[g + 1] - offsets[g]
           = Cardinality({lid \in Slots : Decode(gatherMap[lid]) = g})
      /\ y[GPos(g, c)] = (offsets[g + 1] - offsets[g]) * y0[GPos(g, c)]

(* a round trip over a map with a dof of multiplicity 2 that is negated in
   one element, and a dof of multiplicity 0 *)
C5_Witness ==
  /\ pc = "RoundTripUnsigned"
  /\ \E p \in DOMAIN y0 : y0[p] > 1
  /\ \E g \in Dofs : offsets[g + 1] - offsets[g] = 2 /\ \E j \in Bucket(g) : indices[j] < 0
  /\ \E g \in Dofs : offsets[g + 1] = offsets[g]

(* C6: BooleanMask writes 1 to the first entry of every non-empty bucket and
   0 to its other entries, each at the (slot, component, element) position of
   that entry, and writes nowhere else; also for sign-encoded indices. *)
C6_BooleanMask ==
  pc \in {"BooleanMask", "stopped"} =>
    /\ ~ub
    /\ acc = {<<j, c, LPos(Decode(indices[j]), c)>> : j \in Slots, c \in Comps}
    /\ pc = "BooleanMask" =>
         \A g \in Dofs, c \in Comps : \A j \in Bucket(g) :
           y[LPos(Decode(indices[j]), c)] = (IF j = offsets[g] THEN 1 ELSE 0)

Elems == 0..(ne - 1)

(* the elements that contain global dof g, and the local slot of g in e *)
ElemsOf(g) == {e \in Elems : \E d \in 0..(dof - 1) : Decode(gatherMap[e * dof + d]) = g}

LocalOf(g, e) == CHOOSE d \in 0..(dof - 1) : Decode(gatherMap[e * dof + d]) = g

Share(i, j) == ElemsOf(i) \cap ElemsOf(j) # {}

(* the precondition of the assembly: an unsigned gather map, pairwise
   distinct dofs within every element, at most MaxNbNbr elements per dof *)
FillPre ==
  /\ \A lid \in Slots : gatherMap[lid] >= 0
  /\ \A lid, lid2 \in Slots :
       (lid \div dof = lid2 \div dof /\ gatherMap[lid] = gatherMap[lid2]) => lid = lid2
  /\ \A g \in Dofs : Cardinality(ElemsOf(g)) <= MaxNbNbr

RowCount(r) == Cardinality({j \in Dofs : Share(r, j)})

(* C7: under the precondition FillI leaves I[0] = 0, I non-decreasing and
   I[r+1] - I[r] equal to the number of distinct columns j sharing an element
   with row r, and returns I[vdim*ndofs], the total of these counts. *)
C7_FillI ==
  (pc = "FillI" /\ FillPre) =>
    /\ ~ub
    /\ DOMAIN I = 0..(vdim * ndofs)
    /\ I[0] = 0
    /\ \A r \in 0..(vdim * ndofs - 1) : I[r] <= I[r + 1]
    /\ \A r \in Dofs : I[r + 1] - I[r] = RowCount(r)
    /\ nnz = I[vdim * ndofs]
    /\ nnz = SumOver(Dofs, [r \in Dofs |-> RowCount(r)])

(* two elements {a,b} and {b,c}: b is shared, a and c are not *)
C7_Witness ==
  /\ pc = "FillI"
  /\ FillPre
  /\ ne = 2 /\ dof = 2 /\ ndofs = 3
  /\ \A g \in Dofs : ElemsOf(g) # {}
  /\ \E g \in Dofs : Cardinality(ElemsOf(g)) = 2
  /\ nnz = 7

(* the positions of row i that hold column j *)
EntriesOf(i, j) == {k \in DOMAIN J : I[i] <= k /\ k < I[i + 1] /\ J[k] = j}

(* the sum of mat_ea(local_j, local_i, e) over the elements containing i and j *)
Assembled(i, j) ==
  LET both == ElemsOf(i) \cap ElemsOf(j)
  IN SumOver(both,
             [e \in both |-> x[LocalOf(j, e) + dof * (LocalOf(i, e) + dof * e)]])

(* C8: after FillI and FillJAndData, under the precondition, row i holds
   exactly one entry with column j for every pair sharing an element, with
   the sum of the local entries of all elements containing both, and no entry
   for the other pairs. *)
C8_FillJAndData ==
  (pc = "FillJAndData" /\ FillPre) =>
    /\ ~ub
    /\ DOMAIN J = 0..(nnz - 1)
    /\ DOMAIN Data = 0..(nnz - 1)
    /\ \A i, j \in Dofs :
         IF Share(i, j)
         THEN /\ Cardinality(EntriesOf(i, j)) = 1
              /\ \A k \in EntriesOf(i, j) : Data[k] = Assembled(i, j)
         ELSE EntriesOf(i, j) = {}

(* two elements over the same two dofs in opposite local order, a third dof
   untouched, and a matrix with pairwise different entries *)
C8_Witness ==
  /\ pc = "FillJAndData"
  /\ FillPre
  /\ ne = 2 /\ dof = 2 /\ ndofs = 3
  /\ gatherMap[0] = gatherMap[3] /\ gatherMap[1] = gatherMap[2]
  /\ \E p \in DOMAIN x : x[p] > 1
  /\ nnz = 4

(* C9: index |-> PermuteFaceL2(dim, face_id1, face_id2, orientation, dof1d,
   index) is a bijection of [0, dof1d^(dim-1)) onto itself, for every
   dimension, pair of face ids and orientation code. *)
C9_PermuteBijection ==
  pc = "permuted" =>
    LET faceDofs == 0..(FaceDofs(dim, dof1d) - 1)
    IN /\ DOMAIN perm = faceDofs
       /\ \A a \in faceDofs : perm[a] \in faceDofs
       /\ \A a, b \in faceDofs : perm[a] = perm[b] => a = b
       /\ \A b \in faceDofs : \E a \in faceDofs : perm[a] = b

(* a 3x3 face of a cube, mapped by a rotation that is not the identity *)
C9_Witness ==
  /\ pc = "permuted"
  /\ dim = 3 /\ dof1d = 3 /\ orientation = 2
  /\ face_id1 = 0 /\ face_id2 = 3
  /\ \E a \in DOMAIN perm : perm[a] # a

(* the face slots of a face restriction, and the positions of y in
   DoubleValued mode: d_y(dof, c, side, face) *)
FaceSlots == 0..(nf * dof - 1)

YPos2(i, c, side) == (i % dof) + dof * (c + vdim * (side + 2 * (i \div dof)))

(* C10: L2FaceRestriction::Mult in DoubleValued mode writes exactly 0 to the
   side-2 entry (dof, c, 1, face) of every face slot whose scatter_indices2
   entry is the sentinel -1, for every component c; it reads the global
   vector at no index -1 and at no position outside it; the side-1 entry of
   every slot is the value of x at scatter_indices1, sentinel or not. *)
C10_Sentinel ==
  (pc = "L2Mult" /\ m = "DoubleValued") =>
    /\ ~ub
    /\ DOMAIN y = 0..(2 * vdim * nf * dof - 1)
    /\ \A a \in acc : a[1] # -1 /\ a[2] \in DOMAIN x
    /\ \A i \in FaceSlots, c \in Comps :
         /\ scatter_indices2[i] = -1 => y[YPos2(i, c, 1)] = 0
         /\ y[YPos2(i, c, 0)] = x[GPos(scatter_indices1[i], c)]

(* a boundary restriction with two faces and two components was applied to
   a buffer that held 7 everywhere, and every side-2 index is the sentinel *)
C10_Witness ==
  /\ pc = "L2Mult" /\ m = "DoubleValued" /\ type = "Boundary"
  /\ nf = 2 /\ dof = 2 /\ vdim = 2 /\ byvdim
  /\ \A k \in DOMAIN y0 : y0[k] = 7
  /\ \A i \in FaceSlots : scatter_indices2[i] = -1
  /\ \E i \in FaceSlots : \A c \in Comps : y[YPos2(i, c, 1)] = 0 /\ y[YPos2(i, c, 0)] > 0

(* a face restriction was returned by its constructor *)
FaceConstructed == pc \notin {"new", "newH1", "error"}

Tagged == pc \in {"built", "L2Mult", "L2MultTranspose"} /\ m = "DoubleValued"

(* the positions of gather_indices in the bucket of global dof g *)
FaceBucket(g) == offsets[g]..(offsets[g + 1] - 1)

(* the sum of x over the face slots that Mult fills from global dof g *)
TransposeOfMult(g, c) ==
  IF m = "DoubleValued"
  THEN SumOver({YPos2(i, c, 0) : i \in {l \in FaceSlots : scatter_indices1[l] = g}}
                 \cup {YPos2(i, c, 1) : i \in {l \in FaceSlots : scatter_indices2[l] = g}},
               x)
  ELSE SumOver({LPos(i, c) : i \in {l \in FaceSlots : scatter_indices1[l] = g}}, x)

(* C11: for every constructed face restriction (H1, L2 single- and
   double-valued) the buckets of gather_indices are the exact inverse of the
   scatter indices: the bucket of g lies inside gather_indices and holds the
   untagged slot lid iff scatter_indices1[lid] = g, and (double-valued) the
   tagged slot nfdofs+lid iff scatter_indices2[lid] = g; untagged entries are
   below nfdofs and tagged ones in [nfdofs, 2*nfdofs); and
   L2FaceRestriction::MultTranspose adds to y the transpose of Mult applied
   to x. *)
C11_FaceGatherInverse ==
  FaceConstructed =>
    /\ pc # "stopped"
    /\ \A g \in Dofs : \A j \in FaceBucket(g) : j \in DOMAIN gather_indices
    /\ \A g \in Dofs : \A j \in FaceBucket(g) \cap DOMAIN gather_indices :
         gather_indices[j] \in 0..((IF Tagged THEN 2 ELSE 1) * nf * dof - 1)
    /\ \A g \in Dofs, lid \in FaceSlots :
         /\ (\E j \in FaceBucket(g) : gather_indices[j] = lid)
              <=> scatter_indices1[lid] = g
         /\ Tagged => ((\E j \in FaceBucket(g) : gather_indices[j] = nf * dof + lid)
                         <=> scatter_indices2[lid] = g)
    /\ pc = "L2MultTranspose" =>
         /\ ~ub
         /\ \A g \in Dofs, c \in Comps :
              y[GPos(g, c)] = y0[GPos(g, c)] + TransposeOfMult(g, c)

(* the statement of C11 on the restrictions with at least one face *)
FaceGatherInverseWithFaces == nf > 0 => C11_FaceGatherInverse

(* the tasks of the running MultTranspose have all finished *)
AllDone == \A i \in DOMAIN tasks : tasks[i].c = vdim

(* what the sequential loop of the same MultTranspose leaves in y *)
SequentialMT ==
  CASE pc \in {"ParER", "ParERUnsigned"} ->
         MultTransposeLoop(0, ndofs, dof, vdim, byvdim, offsets, indices, x, y0,
                           pc = "ParER")
    [] pc = "ParH1" ->
         H1MultTransposeLoop(ndofs, dof, vdim, byvdim, nf * dof, offsets,
                             gather_indices, x, y0).y
    [] pc = "ParL2" ->
         L2MultTransposeLoop(ndofs, dof, vdim, byvdim, nf * dof, m, offsets,
                             gather_indices, x, y0).y

(* the output entries of dof i *)
OwnEntries(i) == {GPos(i, c) : c \in Comps}

WritesOwnEntries ==
  /\ \A a \in acc : a[2] = "w" => (a[3] = "y" /\ a[4] \in OwnEntries(a[1]))
  /\ \A a, b \in acc : (a[2] = "w" /\ b[2] = "w" /\ a[4] = b[4]) => a[1] = b[1]

(* C12 as stated: in MultTranspose of ElementRestriction, H1FaceRestriction
   and L2FaceRestriction, run as one task per global dof under any
   interleaving, task i writes only the output entries of dof i and reads
   only the local input and the index arrays; no two tasks write the same
   location and the final global vector is the sequential result. *)
C12_Original ==
  pc \in ParKinds =>
    /\ ~ub
    /\ WritesOwnEntries
    /\ \A a \in acc : a[2] = "r" => a[3] \in {"x", "offsets", "indices", "gather_indices"}
    /\ AllDone => y = SequentialMT

(* C12, amended: task i writes only the output entries of dof i; it reads
   the local input and the index arrays, and in the face restrictions, whose
   store is +=, also its own output entries, so it reads nothing another task
   writes; no two tasks write the same location and the final global vector
   is the sequential result for every interleaving. *)
C12_TaskIsolation ==
  pc \in ParKinds =>
    /\ ~ub
    /\ WritesOwnEntries
    /\ \A a \in acc : a[2] = "r" =>
         \/ a[3] \in {"x", "offsets", "indices", "gather_indices"}
         \/ a[3] = "y" /\ a[4] \in OwnEntries(a[1])
    /\ \A a, b \in acc : (a[2] = "r" /\ b[2] = "w" /\ a[3] = b[3] /\ a[4] = b[4])
                            => a[1] = b[1]
    /\ AllDone => y = SequentialMT

(* the tasks of a double-valued L2 restriction over an interior face have
   all finished, the task of the last dof finished first *)
C12_Witness ==
  /\ pc = "ParL2" /\ m = "DoubleValued" /\ type = "Interior"
  /\ ndofs >= 2 /\ vdim = 2
  /\ AllDone
  /\ \E g \in Dofs : y[GPos(g, 1)] # y0[GPos(g, 1)]
  /\ \E a \in acc : a[2] = "r" /\ a[3] = "y"


(***************************************************************************)
(* Mult under interleaving                                                 *)
(***************************************************************************)
MultDone == \A i \in DOMAIN tasks : tasks[i].c = NOps(i)

(* the stores of one task, in program order, applied to yv *)
RECURSIVE RunOps(_, _, _, _)
RunOps(i, k, n, yv) ==
  IF k > n THEN yv
  ELSE \* the stores of a task beyond the index arrays are not defined
       IF MultOps(i)[k].kind = "outside" THEN yv
       ELSE RunOps(i, k + 1, n,
                   [yv EXCEPT ![MultOps(i)[k].pos] =
                      IF MultOps(i)[k].kind = "set" THEN MultOps(i)[k].val
                      ELSE @ + MultOps(i)[k].val])

(* the tasks one after the other, in the order of the loop index *)
RECURSIVE RunTasks(_, _)
RunTasks(i, yv) ==
  IF i \notin DOMAIN tasks THEN yv
  ELSE RunTasks(i + 1, RunOps(i, 1, NOps(i), yv))

(* the result of the sequential loop *)
SequentialMult ==
  CASE pc \in {"ParMult", "ParMultUnsigned"} ->
         MultLoop(0, ne, dof, vdim, byvdim, ndofs, gatherMap, x, y0, pc = "ParMult")
    [] pc = "ParH1Mult" ->
         H1MultLoop(nf * dof, dof, vdim, byvdim, ndofs, scatter_indices1, x, y0).y
    [] pc = "ParL2Mult" ->
         L2MultLoop(0, nf * dof, dof, vdim, byvdim, ndofs, m, scatter_indices1,
                    scatter_indices2, x, [y |-> y0, acc |-> {}]).y
    [] pc = "ParNormalDMult" -> RunTasks(0, Arr(dof * vdim * 2 * nf * 2, 0))

(* C13: in Mult of every restriction, run as one task per local entry under
   any interleaving, each output entry is written by exactly one task, no
   two tasks read-modify-write the same entry, and the result is the one of
   the sequential loop whatever the interleaving *)
C13_MultWriteOnce ==
  pc \in MultKinds =>
    /\ \A a, b \in acc : (a[2] = "w" /\ b[2] = "w" /\ a[3] = b[3] /\ a[4] = b[4]) => a[1] = b[1]
    /\ \A a, b \in acc : (a[2] = "r" /\ a[3] = "y" /\ b[3] = "y" /\ a[4] = b[4]) => a[1] = b[1]
    /\ MultDone =>
         /\ \A p \in DOMAIN y : \E a \in acc : a[2] = "w" /\ a[3] = "y" /\ a[4] = p
         /\ y = SequentialMult

(* the same for the restrictions other than L2FaceNormalDRestriction *)
MultWriteOnceOthers == pc \in (MultKinds \ {"ParNormalDMult"}) => C13_MultWriteOnce


(***************************************************************************)
(* FillJAndData under interleaving                                         *)
(***************************************************************************)
(* the row pointers FillI left, and what the sequential loop stores *)
I0 == ERFillI(ne, ndofs, dof, vdim, offsets, indices, gatherMap).I
SequentialFill == ERFillJAndData(ne, ndofs, dof, vdim, offsets, indices, gatherMap, x, I0, nnz)

(* how often row r of the matrix (rp, cols, vals) holds the pair (c, v) *)
RowCopies(rp, cols, vals, r, c, v) ==
  Cardinality({k \in rp[r]..(rp[r + 1] - 1) : cols[k] = c /\ vals[k] = v})

(* C14: under any interleaving of the per-element tasks, every index
   GetAndIncrementNnzIndex returns for row r is distinct from every other
   returned index and lies in [I0[r], I0[r+1]); no J/Data position is written
   twice; and each row holds the same multiset of (column, value) pairs as
   after the sequential loop. *)
C14_AtomicRowIndex ==
  pc \in {"ParFillJ", "ParFillJDone"} =>
    /\ ~ub
    /\ \A rp \in {I0} : \A a \in acc :
         a[2] = "ret" => (rp[a[3]] <= a[4] /\ a[4] < rp[a[3] + 1])
    /\ \A a, b \in acc : (a[2] = "ret" /\ b[2] = "ret" /\ a[4] = b[4]) => a = b
    /\ \A a, b \in acc : (a[2] = "w" /\ b[2] = "w" /\ a[4] = b[4]) => a = b
    /\ pc = "ParFillJDone" =>
         \A sq \in {SequentialFill} :
           /\ I = sq.I
           /\ \A r \in 0..(vdim * ndofs - 1) : \A k \in DOMAIN J :
                /\ RowCopies(I, J, Data, r, J[k], Data[k])
                     = RowCopies(I, sq.J, sq.Data, r, J[k], Data[k])
                /\ RowCopies(I, J, Data, r, sq.J[k], sq.Data[k])
                     = RowCopies(I, sq.J, sq.Data, r, sq.J[k], sq.Data[k])

(* two elements filled the same row in the order opposite to the sequential
   one *)
C14_Witness ==
  /\ pc = "ParFillJDone"
  /\ ne = 2
  /\ \E a, b \in acc : a[2] = "ret" /\ b[2] = "ret" /\ a[1] # b[1] /\ a[3] = b[3]
  /\ \E sq \in {SequentialFill} : J # sq.J


(***************************************************************************)
(* AddFaceMatricesToElementMatrices under interleaving                     *)
(***************************************************************************)
(* the (face, side, i, j) whose face slots i, j belong to element e and map
   to its local slots iB, jB *)
Contributors(e, iB, jB) ==
  {c \in (0..(nf - 1)) \X (IF m = "DoubleValued" THEN {0, 1} ELSE {0})
         \X (0..(dof - 1)) \X (0..(dof - 1)) :
     LET si == IF c[2] = 0 THEN scatter_indices1 ELSE scatter_indices2
         gi == si[c[1] * dof + c[3]]
         gj == si[c[1] * dof + c[4]]
     IN /\ gi \div elemDofs = e /\ gj \div elemDofs = e
        /\ gi % elemDofs = iB /\ gj % elemDofs = jB}

(* mat_fea(i, j, s, f) *)
MatFea(c) ==
  IF m = "DoubleValued" THEN x[c[3] + dof * (c[4] + dof * (c[2] + 2 * c[1]))]
  ELSE x[c[3] + dof * (c[4] + dof * c[1])]

(* C15: over interior faces, under any interleaving of the per-face tasks,
   the final element matrix entry (iB, jB, e) is its initial value plus the
   sum of the face matrix entries mat_fea(i,j,s,f) of every face f and side
   s whose element is e and whose slots i, j map to iB, jB. *)
C15_AtomicFold ==
  (pc = "ParAddFace" /\ \A f \in DOMAIN tasks : tasks[f].c = Cardinality(DOMAIN AddFaceOps(x, f))) =>
    /\ ~ub
    /\ \A e \in 0..(ne - 1), iB \in 0..(elemDofs - 1), jB \in 0..(elemDofs - 1) :
         y[iB + elemDofs * (jB + elemDofs * e)]
           = y0[iB + elemDofs * (jB + elemDofs * e)]
             + SumOver(Contributors(e, iB, jB),
                       [c \in Contributors(e, iB, jB) |-> MatFea(c)])

(* two faces of the same element were folded, both tasks adding to the same
   entry, the later face first *)
C15_Witness ==
  /\ pc = "ParAddFace"
  /\ \A f \in DOMAIN tasks : tasks[f].c = Cardinality(DOMAIN AddFaceOps(x, f))
  /\ nf = 2
  /\ m = "DoubleValued"
  /\ \E a, b \in acc : a[1] # b[1] /\ a[4] = b[4]


(***************************************************************************)
(* The index arrays after construction                                     *)
(***************************************************************************)
Constructed == pc \notin {"new", "newH1", "error"}

(* C16: from the end of construction on, no call of Mult, MultUnsigned,
   MultTranspose, MultTransposeUnsigned, BooleanMask, FillI, FillJAndData or
   AddFaceMatricesToElementMatrices, in any sequence, changes offsets,
   indices, gatherMap, scatter_indices1, scatter_indices2 or gather_indices. *)
C16_IndexArraysFrozen ==
  [][Constructed =>
       /\ offsets' = offsets
       /\ indices' = indices
       /\ gatherMap' = gatherMap
       /\ scatter_indices1' = scatter_indices1
       /\ scatter_indices2' = scatter_indices2
       /\ gather_indices' = gather_indices]_vars

(* FillI then FillJAndData have run on an L2FaceRestriction with faces *)
C16_Witness ==
  /\ pc = "L2FillJAndData"
  /\ ~ub
  /\ nf > 0
  /\ \E g \in DOMAIN offsets : offsets[g] > 0
  /\ \E k \in DOMAIN J : J[k] # Uninit

(* C20: L2FaceRestriction::FillI and FillJAndData never hand the sentinel -1
   to AddNnz as a row index and never store it in J as a column index. *)
C20_SentinelSkipped ==
  pc \in {"L2FillI", "L2FillJAndData"} => \A a \in acc : a[2] # Sentinel

(* the same on the restrictions without a sentinel entry *)
SentinelFreeFill ==
  (pc \in {"L2FillI", "L2FillJAndData"} /\ \A k \in DOMAIN scatter_indices2 : scatter_indices2[k] # Sentinel)
    => \A a \in acc : a[2] # Sentinel


(***************************************************************************)
(* The element-type check of the ElementRestriction constructor            *)
(***************************************************************************)
NothingComputed ==
  /\ \A i \in DOMAIN offsets : offsets[i] = Uninit
  /\ \A i \in DOMAIN indices : indices[i] = Uninit
  /\ \A i \in DOMAIN gatherMap : gatherMap[i] = Uninit

(* C17: with LEXICOGRAPHIC ordering on a space with an element that is not a
   tensor-basis element the constructor ends in mfem_error before any entry
   of offsets, indices or gatherMap is computed; with native ordering no
   element is checked and the construction proceeds. *)
C17_LexicographicCheck ==
  pc \in {"built", "error"} =>
    /\ (dof_reorder /\ \E e \in DOMAIN tensor : ~tensor[e]) => (pc = "error" /\ NothingComputed)
    /\ ~dof_reorder =>
         /\ pc = "built"
         /\ \A i \in DOMAIN offsets : offsets[i] # Uninit
         /\ \A i \in DOMAIN gatherMap : gatherMap[i] # Uninit

(* a mixed space: element 0 is a tensor-basis element, element 1 is not *)
C17_Witness ==
  /\ pc = "error"
  /\ dof_reorder
  /\ ne = 2
  /\ tensor[0] /\ ~tensor[1]
  /\ NothingComputed


(***************************************************************************)
(* The checks of the face restriction constructors                         *)
(***************************************************************************)
Unsupported == ~conforming \/ basis \notin {"GaussLobatto", "Positive"}

(* C18: on a non-conforming mesh, or with a basis that is neither
   Gauss-Lobatto nor Positive, the constructors of H1FaceRestriction and
   L2FaceRestriction end in a fatal error whatever nf is, nf = 0 included;
   no constructed object is returned. *)
C18_FailFast ==
  pc \in {"built", "builtH1", "error"} => (Unsupported => pc = "error")

(* the same for L2FaceRestriction alone, and for H1FaceRestriction with at
   least one face *)
FailFastL2 == pc \in {"built", "error"} => (Unsupported => pc = "error")
FailFastH1WithFaces == (pc \in {"builtH1", "error"} /\ nf > 0) => (Unsupported => pc = "error")


(***************************************************************************)
(* The capacity of the buffers i_elts, j_elts and inter                    *)
(***************************************************************************)
(* some dof has a bucket longer than the buffers *)
OverCapacity ==
  \E g \in 0..(ndofs - 1) : offsets[g + 1] - offsets[g] > MaxNbNbr

(* C19: when a dof is shared by more than MaxNbNbr elements, FillI and
   FillJAndData end in a reported fatal error and write no element id at a
   position >= MaxNbNbr of the buffers. *)
C19_CapacityChecked ==
  (pc \in {"FillI", "FillJAndData", "stopped", "error"} /\ OverCapacity) =>
    (pc = "error" /\ ~ub)

(* within the capacity the two passes write inside the buffers *)
WithinCapacity ==
  (pc \in {"FillI", "FillJAndData", "stopped", "error"} /\ ~OverCapacity) =>
    (pc \in {"FillI", "FillJAndData"} /\ ~ub)


(***************************************************************************)
(* The sentinel in AddFaceMatricesToElementMatrices                        *)
(***************************************************************************)
(* the faces of a finished AddFaceMatricesToElementMatrices call whose side 2
   is the sentinel *)
SentinelFaces ==
  {f \in 0..(nf - 1) : scatter_indices2[f * dof] = Sentinel}

(* C21: in AddFaceMatricesToElementMatrices (DoubleValued), for a face whose
   scatter_indices2 entries are the sentinel, no element matrix entry is
   read or modified on behalf of side 2: only the dof*dof additions of the
   e1 block are made and no position outside ea_data is touched. *)
C21_SentinelSide2Unused ==
  (pc = "L2AddFaceMatrices" /\ m = "DoubleValued") =>
    \A f \in SentinelFaces :
      /\ Cardinality(DOMAIN AddFaceOps(x, f)) = dof * dof
      /\ ~ub

(* without sentinel faces every addition falls inside ea_data *)
AddFaceInside ==
  (pc = "L2AddFaceMatrices" /\ (m = "DoubleValued" => SentinelFaces = {})) => ~ub


(***************************************************************************)
(* L2FaceNormalDRestriction: the constructor                               *)
(***************************************************************************)
NDReturned == pc \in {"builtND", "error", "stopped"}

(* C22: constructing an L2FaceNormalDRestriction on a 3D mesh ends in an
   explicit error for every face type and every face-value mode; no
   constructed object is returned. *)
C22_ThreeDFailsLoudly ==
  (NDReturned /\ dim = 3) => pc = "error"

(* in dimension 1 a constructor that meets a face ends in an error *)
OneDFailsLoudly ==
  (NDReturned /\ dim = 1 /\ nf > 0) => pc = "error"

(* a double-valued restriction on the interior faces of a 2D mesh *)
NDInterior2D ==
  pc = "builtND" /\ dim = 2 /\ m = "DoubleValued" /\ type = "Interior" /\ nf > 0

NDStencil0 == Arr(dof * dof1d, Uninit)

(* the entries of side 2 in the lists of the two passes *)
NDSide2 ==
  {q \in 1..(nf * 2 * dof * dof1d) : (q - 1) % (2 * dof * dof1d) >= dof * dof1d}

NDSameGid ==
  \A cnt \in {NDGids(TRUE, FALSE, NDStencil0)}, fil \in {NDGids(TRUE, TRUE, NDStencil0)} :
    \A q \in NDSide2 : cnt[q][1] = fil[q][1]

(* the global id the scatter tables give the local entry v *)
NDOwnGid(v) ==
  IF v < 2 * nf * dof * dof1d THEN scatter_indices1[v]
  ELSE scatter_indices2[v - 2 * nf * dof * dof1d]

NDOffsetsMonotone ==
  /\ offsets_nor[0] = 0
  /\ \A g \in 0..(ndofs - 1) : offsets_nor[g] <= offsets_nor[g + 1]

NDInOwnBucket ==
  \A g \in 0..(ndofs - 1) :
    \A pos \in offsets_nor[g]..(offsets_nor[g + 1] - 1) :
      /\ gather_indices_nor[pos] # Uninit
      /\ NDOwnGid(gather_indices_nor[pos]) = g

NDBucketsFull ==
  /\ offsets_nor[ndofs] = 2 * nf * dof * dof1d
  /\ \A pos \in DOMAIN gather_indices_nor : gather_indices_nor[pos] # Uninit

(* C28: for a double-valued L2FaceNormalDRestriction on the interior faces
   of a 2D conforming mesh the counting pass and the fill pass compute the
   same global id for every side-2 entry; offsets_nor is non-decreasing from
   0, every gather_indices_nor entry lies in the bucket of its own global id
   and no bucket is over- or under-filled. *)
C28_NormalPassesAgree ==
  NDInterior2D =>
    NDSameGid /\ NDOffsetsMonotone /\ NDInOwnBucket /\ NDBucketsFull

(* what holds of the tables: the buckets are sized and filled exactly *)
NDBucketsExact ==
  NDInterior2D => NDOffsetsMonotone /\ NDBucketsFull

NDSameGidOnly == NDInterior2D => NDSameGid

NDInOwnBucketOnly == NDInterior2D => NDInOwnBucket


(***************************************************************************)
(* H1FaceRestriction::MultTranspose                                        *)
(***************************************************************************)
(* the sum of the local vector x over the face slots in the bucket of g *)
H1BucketTotal(g, c) ==
  SumOver({LPos(gather_indices[j], c) : j \in FaceBucket(g)}, x)

(* C23: after H1FaceRestriction::MultTranspose, global[g,c] equals the sum
   over the face slots in bucket g of local[slot,c], whatever global held
   before the call. *)
C23_H1GatherTranspose ==
  (pc = "H1MultTranspose" /\ ~ub) =>
    \A g \in 0..(ndofs - 1), c \in 0..(vdim - 1) :
      y[GPos(g, c)] = H1BucketTotal(g, c)

(* the sum is added to what global held before the call *)
H1AddsToPrior ==
  (pc = "H1MultTranspose" /\ ~ub) =>
    \A g \in 0..(ndofs - 1), c \in 0..(vdim - 1) :
      y[GPos(g, c)] = y0[GPos(g, c)] + H1BucketTotal(g, c)


(***************************************************************************)
(* The signed-index encoding                                               *)
(***************************************************************************)
MaxCode == 8

(* the largest and the smallest int *)
IntMax == (Pow2(30) - 1) + Pow2(30)

IntMin == -IntMax - 1

Codes == ((-MaxCode)..(MaxCode - 1)) \cup {IntMin, IntMin + 1, IntMax - 1, IntMax}

(* C24: decoding a signed index v to gid = v >= 0 ? v : -1 - v with sign
   v >= 0 and encoding the pair again gives v, and gid >= 0; the entries of
   gatherMap and indices the constructor wrote are such encodings, and Mult
   and MultTranspose read them with this decoding. *)
C24_SignedRoundTrip ==
  /\ \A v \in Codes : Decode(v) >= 0 /\ Encode(v >= 0, Decode(v)) = v
  /\ pc \notin {"new", "error"} =>
       \A k \in Slots :
         /\ Decode(gatherMap[k]) \in Dofs
         /\ Encode(gatherMap[k] >= 0, Decode(gatherMap[k])) = gatherMap[k]
         /\ Decode(indices[k]) \in Slots
         /\ Encode(indices[k] >= 0, Decode(indices[k])) = indices[k]
  /\ pc = "Mult" =>
       \A i \in Slots, c \in Comps :
         y[LPos(i, c)] = Sign(gatherMap[i]) * x[GPos(Decode(gatherMap[i]), c)]
  /\ pc = "MultTranspose" =>
       \A g \in Dofs, c \in Comps : y[GPos(g, c)] = BucketTotal(g, c, x, TRUE)

(* a Mult call over a gather map with a sign-encoded entry and a plain one *)
C24_Witness ==
  /\ pc = "Mult"
  /\ \E i, k \in Slots : gatherMap[i] < 0 /\ indices[k] < 0 /\ gatherMap[k] >= 0

(***************************************************************************)
(* C25: for dim 1..3, every reference face and every dof1d, GetFaceDofs    *)
(* fills faceMap with dof1d^(dim-1) slots of [0, dof1d^dim) that lie on    *)
(* the named face and are listed in strictly increasing order (hence are   *)
(* pairwise distinct).                                                     *)
(***************************************************************************)
(* the tensor coordinates <<x, y, z>> of an element-local slot *)
SlotCoords(slot, size1d) ==
  <<slot % size1d, (slot \div size1d) % size1d, slot \div (size1d * size1d)>>

(* the reference face fixes coordinate FaceAxis at FaceSide *)
FaceAxis(d, face_id) ==
  CASE d = 1 -> 1
    [] d = 2 -> IF face_id \in {1, 3} THEN 1 ELSE 2
    [] d = 3 -> IF face_id \in {2, 4} THEN 1
                ELSE IF face_id \in {1, 3} THEN 2 ELSE 3

FaceSide(d, face_id, size1d) ==
  CASE d = 1 -> IF face_id = 0 THEN 0 ELSE size1d - 1
    [] d = 2 -> IF face_id \in {0, 3} THEN 0 ELSE size1d - 1
    [] d = 3 -> IF face_id \in {0, 1, 4} THEN 0 ELSE size1d - 1

C25_FaceDofsOnFace ==
  pc = "mapped" =>
    /\ DOMAIN faceMap1 = 0..(FaceDofs(dim, dof1d) - 1)
    /\ \A a \in DOMAIN faceMap1 :
         /\ faceMap1[a] \in 0..(Power(dof1d, dim) - 1)
         /\ SlotCoords(faceMap1[a], dof1d)[FaceAxis(dim, face_id1)]
              = FaceSide(dim, face_id1, dof1d)
    /\ \A a, b \in DOMAIN faceMap1 : a < b => faceMap1[a] < faceMap1[b]

C25_Witness ==
  /\ pc = "mapped" /\ dim = 3 /\ dof1d = MaxDof1d /\ face_id1 = 4
  /\ faceMap1[1] = MaxDof1d /\ faceMap1[MaxDof1d] = MaxDof1d * MaxDof1d

(***************************************************************************)
(* C26: in PermuteFace3D, for dof1d >= 2, the eight grid maps selected by  *)
(* orientation 0..7 are pairwise distinct bijections of the dof1d x dof1d  *)
(* grid, closed under composition and inverse; between faces whose         *)
(* lexicographic conversions are the identity the permutation computed is  *)
(* the grid map itself.                                                    *)
(***************************************************************************)
Grid(size1d) == (0..(size1d - 1)) \X (0..(size1d - 1))

(* (i, j) |-> (new_i, new_j) of the switch on orientation *)
GridMap(orient, size1d) ==
  [p \in Grid(size1d) |-> Orient3D(orient, size1d, p[1], p[2])]

C26_DihedralGroup ==
  (pc = "permuted" /\ dim = 3 /\ dof1d >= 2) =>
    \A g \in {GridMap(orientation, dof1d)} :
      /\ \A p \in Grid(dof1d) : g[p] \in Grid(dof1d)
      /\ \A p, q \in Grid(dof1d) : g[p] = g[q] => p = q
      /\ \A q \in Grid(dof1d) : \E p \in Grid(dof1d) : g[p] = q
      /\ \A o2 \in Orientations(3) \ {orientation} : GridMap(o2, dof1d) # g
      /\ \A o2 \in Orientations(3) : \A h \in {GridMap(o2, dof1d)} :
           \E o3 \in Orientations(3) :
             GridMap(o3, dof1d) = [p \in Grid(dof1d) |-> g[h[p]]]
      /\ \E o3 \in Orientations(3) : \A h \in {GridMap(o3, dof1d)} :
           \A p \in Grid(dof1d) : h[g[p]] = p /\ g[h[p]] = p
      /\ (face_id1 \in {1, 2, 5} /\ face_id2 \in {1, 2, 5}) =>
           \A p \in Grid(dof1d) :
             perm[p[1] + p[2] * dof1d] = g[p][1] + g[p][2] * dof1d

C26_Witness ==
  /\ pc = "permuted" /\ dim = 3 /\ dof1d = MaxDof1d /\ orientation = 6
  /\ face_id1 = 2 /\ face_id2 = 2
  /\ perm[1] = MaxDof1d - 1 + MaxDof1d /\ perm[MaxDof1d] = MaxDof1d - 2

(***************************************************************************)
(* C27: on the 2x2 quadrilateral mesh with the order-2 tensor basis,       *)
(* MultTranspose(Mult(x)) reproduces x at every node.                      *)
(***************************************************************************)
C27_RoundTripReproduces ==
  pc = "RoundTrip" => y = y0

(* the number of elements of the mesh that contain node g of the lattice *)
QuadShare(g) ==
  (IF g % 5 = 2 THEN 2 ELSE 1) * (IF g \div 5 = 2 THEN 2 ELSE 1)

(* what holds instead: every entry is scaled by the number of elements
   that share its node, 1 inside an element and on the boundary away from
   the interior faces, 2 on an interior face, 4 at the central vertex *)
C27_RoundTripScales ==
  pc = "RoundTrip" =>
    /\ DOMAIN y = DOMAIN y0
    /\ \A g \in Dofs, c \in Comps :
         /\ offsets[g + 1] - offsets[g] = QuadShare(g)
         /\ y[GPos(g, c)] = QuadShare(g) * y0[GPos(g, c)]

C27_Witness ==
  /\ pc = "RoundTrip" /\ dof_reorder /\ vdim = 1
  /\ y0[12] = 13 /\ y[12] = 52 /\ y[11] = 24 /\ y[6] = 7

(***************************************************************************)
(* C29: in FillSparseMatrix (FillI, then FillJAndData on J and Data of the *)
(* length FillI returned), for a gather map without sign-encoded entries:  *)
(* the filling loop advances I[r] to the old I[r+1] for every row r and    *)
(* writes every entry of J and Data, and after the final shift I is the    *)
(* array FillI produced.                                                   *)
(***************************************************************************)
UnsignedMap == \A lid \in Slots : gatherMap[lid] >= 0

(* I, J, Data after the filling loop of FillJAndData, before the shift *)
Advanced(ea) ==
  FillJLoop(0, ne, ndofs, dof, offsets, indices, gatherMap, ea,
            [I |-> I, J |-> Arr(nnz, Uninit), Data |-> Arr(nnz, Uninit),
             ub |-> FALSE])

C29_RowPointersRestored ==
  [][(pc = "FillI" /\ pc' = "FillJAndData" /\ UnsignedMap) =>
       /\ ~ub'
       /\ I' = I
       /\ I'[0] = 0
       /\ \A k \in 0..(nnz - 1) : J'[k] # Uninit /\ Data'[k] # Uninit
       /\ \A f \in {Advanced(x')} :
            \A r \in 0..(vdim * ndofs - 1) : f.I[r] = I[r + 1]]_vars

(* two elements sharing a dof, two components: rows with one, two and no
   entries *)
C29_Witness ==
  /\ pc = "FillJAndData" /\ UnsignedMap /\ ~ub
  /\ ne = 2 /\ dof = 2 /\ ndofs = 3 /\ vdim = 2
  /\ nnz = 7 /\ I[0] = 0 /\ I[3] = 7 /\ I[6] = 7
  /\ \E r \in Dofs : I[r + 1] - I[r] = 3

(***************************************************************************)
(* C30: for an ElementRestriction whose gatherMap or indices hold          *)
(* sign-encoded entries, FillI and FillJAndData index I, offsets, J and    *)
(* mat_ea only inside the arrays, and every stored column lies in          *)
(* [0, ndofs).                                                             *)
(***************************************************************************)
SignedMap == \E lid \in Slots : gatherMap[lid] < 0 \/ indices[lid] < 0

C30_DecodedIndicesOnly ==
  (pc \in {"FillI", "FillJAndData"} /\ SignedMap) =>
    /\ ~ub
    /\ pc = "FillJAndData" => \A k \in DOMAIN J : J[k] \in Dofs

(* what holds instead: i_L = d_gatherMap[i_E] is used as read, so every
   sign-encoded entry takes d_offsets[i_L] and I[i_L] outside the arrays *)
SignedFillOutside ==
  (pc \in {"FillI", "FillJAndData"} /\ SignedMap) => ub

====
